---- MODULE Spec2Model ----
(***************************************************************************)
(* Discovery pipeline of commence-worker: identity normalisation, the     *)
(* role index, the action resolver, the list phase and the discovery-draft *)
(* store.                                                                  *)
(*                                                                         *)
(* Strings are sequences of one-character strings, so that the string     *)
(* conversions (URL normalisation, canonical names) are computed and not  *)
(* assumed.  JavaScript null / undefined are the atoms below.             *)
(***************************************************************************)
EXTENDS Integers, Sequences, FiniteSets, TLC

\* ------------------------------------------------------------------ bounds
MaxExistingRoles == 2
MaxDismissedRows == 1
MaxLinksPerPage == 1
MaxPagesCfg == 2
MaxDrafts == 2
MaxProcs == 2

\* --------------------------------------------------------- null, undefined
\* null for string-typed columns (a sequence that is no character string)
NullStr == <<"null">>
\* null / undefined for identifiers, flags and tri-state booleans
Null == "null"
Undefined == "undefined"

\* ---------------------------------------------------------- character sets
UpperSeq == <<"A","B","C","D","E","F","G","H","I","J","K","L","M",
              "N","O","P","Q","R","S","T","U","V","W","X","Y","Z">>
LowerSeq == <<"a","b","c","d","e","f","g","h","i","j","k","l","m",
              "n","o","p","q","r","s","t","u","v","w","x","y","z">>
UpperChars == {UpperSeq[i] : i \in 1..26}
LowerChars == {LowerSeq[i] : i \in 1..26}
DigitChars == {"0","1","2","3","4","5","6","7","8","9"}
AlphaChars == UpperChars \cup LowerChars
\* \w of a JavaScript regular expression
WordChars == AlphaChars \cup DigitChars \cup {"_"}
\* \s of a JavaScript regular expression (the members the model's titles use)
SpaceChars == {" ", "\t", "\n"}

ToLowerChar(c) ==
    IF c \in UpperChars
    THEN LowerSeq[CHOOSE i \in 1..26 : UpperSeq[i] = c]
    ELSE c

\* String.prototype.toLowerCase
ToLowerCase(s) == [i \in 1..Len(s) |-> ToLowerChar(s[i])]

\* String.prototype.trim
RECURSIVE TrimLeft(_)
TrimLeft(s) ==
    IF s # <<>> /\ Head(s) \in SpaceChars THEN TrimLeft(Tail(s)) ELSE s

RECURSIVE TrimRight(_)
TrimRight(s) ==
    IF s # <<>> /\ s[Len(s)] \in SpaceChars
    THEN TrimRight(SubSeq(s, 1, Len(s) - 1))
    ELSE s

Trim(s) == TrimRight(TrimLeft(s))

\* index of the first character of s, at or after from, that lies in S;
\* Len(s) + 1 when there is none
FirstIdx(s, from, S) ==
    LET hits == {i \in from..Len(s) : s[i] \in S}
    IN IF hits = {} THEN Len(s) + 1
       ELSE CHOOSE i \in hits : \A j \in hits : i <= j

\* index of the first character of s that is not in S; Len(s) + 1 when none
FirstIdxNot(s, S) ==
    LET hits == {i \in 1..Len(s) : s[i] \notin S}
    IN IF hits = {} THEN Len(s) + 1
       ELSE CHOOSE i \in hits : \A j \in hits : i <= j

\* index of the last character of s that lies in S; 0 when there is none
LastIdx(s, S) ==
    LET hits == {i \in 1..Len(s) : s[i] \in S}
    IN IF hits = {} THEN 0
       ELSE CHOOSE i \in hits : \A j \in hits : j <= i

\* --------------------------------------------------------- extractCanonicalName
\* a match of /\b20\d{2}\b/ starts at position i of s
YearAt(s, i) ==
    /\ i + 3 <= Len(s)
    /\ s[i] = "2"
    /\ s[i + 1] = "0"
    /\ s[i + 2] \in DigitChars
    /\ s[i + 3] \in DigitChars
    /\ (i = 1 \/ s[i - 1] \notin WordChars)
    /\ (i + 3 = Len(s) \/ s[i + 4] \notin WordChars)

\* title.replace(/\b20\d{2}\b/g, '')
RECURSIVE RemoveYears(_, _)
RemoveYears(s, i) ==
    IF i > Len(s) THEN <<>>
    ELSE IF YearAt(s, i) THEN RemoveYears(s, i + 4)
    ELSE <<s[i]>> \o RemoveYears(s, i + 1)

\* canonical.replace(/[^\w\s]/g, ' ')
ReplacePunctuation(s) ==
    [i \in 1..Len(s) |->
        IF s[i] \in WordChars \cup SpaceChars THEN s[i] ELSE " "]

\* canonical.replace(/\s+/g, ' ')
RECURSIVE CollapseSpaces(_, _)
CollapseSpaces(s, i) ==
    IF i > Len(s) THEN <<>>
    ELSE IF s[i] \in SpaceChars
         THEN IF i > 1 /\ s[i - 1] \in SpaceChars
              THEN CollapseSpaces(s, i + 1)
              ELSE <<" ">> \o CollapseSpaces(s, i + 1)
         ELSE <<s[i]>> \o CollapseSpaces(s, i + 1)

extractCanonicalName(title) ==
    IF title = <<>> THEN <<>>
    ELSE LET noYears == Trim(RemoveYears(title, 1))
             noPunct == ReplacePunctuation(noYears)
         IN ToLowerCase(Trim(CollapseSpaces(noPunct, 1)))

\* ------------------------------------------------------------------ normalizeUrl
\* The URL parser of the platform (new URL(url), no base URL), for inputs
\* without leading or trailing white space, dot segments or characters that
\* the parser percent-encodes.
SchemeChars == AlphaChars \cup DigitChars \cup {"+", "-", "."}
SpecialSchemes == {<<"h","t","t","p">>, <<"h","t","t","p","s">>}
\* code points a host may not contain
ForbiddenHostChars == {" ", "#", "/", ":", "<", ">", "?", "@", "[", "\\", "]", "^", "|", "%"}

\* result of parsing: [ok, protocol, hostname, pathname]
ParseFailure == [ok |-> FALSE, protocol |-> <<>>, hostname |-> <<>>, pathname |-> <<>>]

\* authority = [userinfo "@"] host [":" port]
HostOfAuthority(auth) ==
    LET at == LastIdx(auth, {"@"})
        hostport == SubSeq(auth, at + 1, Len(auth))
        colon == FirstIdx(hostport, 1, {":"})
    IN [host |-> SubSeq(hostport, 1, colon - 1),
        port |-> SubSeq(hostport, colon + 1, Len(hostport))]

ParseUrl(url) ==
    LET colon == FirstIdx(url, 1, {":"})
        scheme == ToLowerCase(SubSeq(url, 1, colon - 1))
        rest == SubSeq(url, colon + 1, Len(url))
    IN IF \/ colon > Len(url)
          \/ scheme = <<>>
          \/ url[1] \notin AlphaChars
          \/ \E i \in 1..Len(scheme) : scheme[i] \notin SchemeChars
       THEN ParseFailure
       ELSE IF scheme \in SpecialSchemes
       THEN \* special scheme: any run of slashes, then a mandatory host
            LET start == FirstIdxNot(rest, {"/", "\\"})
                endAuth == FirstIdx(rest, start, {"/", "\\", "?", "#"})
                hp == HostOfAuthority(SubSeq(rest, start, endAuth - 1))
                endPath == FirstIdx(rest, endAuth, {"?", "#"})
                path == SubSeq(rest, endAuth, endPath - 1)
            IN IF \/ hp.host = <<>>
                  \/ \E i \in 1..Len(hp.host) : hp.host[i] \in ForbiddenHostChars
                  \/ \E i \in 1..Len(hp.port) : hp.port[i] \notin DigitChars
               THEN ParseFailure
               ELSE [ok |-> TRUE,
                     protocol |-> scheme \o <<":">>,
                     hostname |-> ToLowerCase(hp.host),
                     pathname |-> IF path = <<>> THEN <<"/">> ELSE path]
       ELSE IF Len(rest) >= 2 /\ rest[1] = "/" /\ rest[2] = "/"
       THEN \* non-special scheme with an authority: the host is opaque
            LET endAuth == FirstIdx(rest, 3, {"/", "?", "#"})
                hp == HostOfAuthority(SubSeq(rest, 3, endAuth - 1))
                endPath == FirstIdx(rest, endAuth, {"?", "#"})
            IN IF \/ \E i \in 1..Len(hp.host) : hp.host[i] \in ForbiddenHostChars \ {"%"}
                  \/ \E i \in 1..Len(hp.port) : hp.port[i] \notin DigitChars
               THEN ParseFailure
               ELSE [ok |-> TRUE,
                     protocol |-> scheme \o <<":">>,
                     hostname |-> hp.host,
                     pathname |-> SubSeq(rest, endAuth, endPath - 1)]
       ELSE \* non-special scheme without authority: path only
            LET endPath == FirstIdx(rest, 1, {"?", "#"})
            IN [ok |-> TRUE,
                protocol |-> scheme \o <<":">>,
                hostname |-> <<>>,
                pathname |-> SubSeq(rest, 1, endPath - 1)]

normalizeUrl(url) ==
    IF url = <<>> THEN <<>>
    ELSE LET parsed == ParseUrl(url)
         IN IF parsed.ok
            THEN parsed.protocol \o <<"/", "/">> \o parsed.hostname \o parsed.pathname
            ELSE url

\* ------------------------------------------------------------ model strings
\* "https://x.c/a"
U_A == <<"h","t","t","p","s",":","/","/","x",".","c","/","a">>
\* "https://X.c/a?u=1#f": the same page with an upper-case host, a tracking
\* parameter and a fragment
U_AQ == <<"h","t","t","p","s",":","/","/","X",".","c","/","a","?","u","=","1","#","f">>
\* "https://x.c/b"
U_B == <<"h","t","t","p","s",":","/","/","x",".","c","/","b">>
\* "x.c/a": no scheme, the parser rejects it
U_BAD == <<"x",".","c","/","a">>
\* "2026 An-b"
T_A == <<"2","0","2","6"," ","A","n","-","b">>
\* "an b"
T_A2 == <<"a","n"," ","b">>
\* "c_d"
T_C == <<"c","_","d">>
\* "2026": canonical name is the empty string
T_E == <<"2","0","2","6">>
\* "An", "b": programme name and role label of a legacy row
P_AN == <<"A","n">>
L_B == <<"b">>

Firms == {"f1", "f2"}
\* the firm of the run
RunFirm == "f1"
CandidateUrls == {U_AQ, U_B, U_BAD}
CandidateTitles == {T_A2, T_C, T_E}
IsOpenValues == {"true", "false", Null}
Actions == {"SKIP", "NEW_ROLE", "URL_CHANGED", "REOPENING"}

\* JavaScript truthiness of a nullable string
Truthy(s) == s # NullStr /\ s # <<>>

\* an empty Map
EmptyMap == <<>>
\* Map.prototype.set
MapSet(m, k, v) == (k :> v) @@ m
\* Map.prototype.has
MapHas(m, k) == k \in DOMAIN m

\* ------------------------------------------------------------------ tables
\* rows of program_roles joined with programs and roles, without is_open
RoleRowShapes ==
    { [id |-> "r1", firm_id |-> "f1", url |-> U_AQ, title |-> T_A,
       canonical_name |-> NullStr, alias |-> NullStr,
       program_name |-> P_AN, role_label |-> L_B],
      \* same normalized URL as r1, another name
      [id |-> "r2", firm_id |-> "f1", url |-> U_A, title |-> T_C,
       canonical_name |-> T_C, alias |-> NullStr,
       program_name |-> P_AN, role_label |-> L_B],
      \* legacy row: no URL and no title, the title is synthesized ("An - b")
      [id |-> "r3", firm_id |-> "f1", url |-> NullStr, title |-> NullStr,
       canonical_name |-> NullStr, alias |-> NullStr,
       program_name |-> P_AN, role_label |-> L_B],
      [id |-> "r4", firm_id |-> "f1", url |-> U_B, title |-> T_C,
       canonical_name |-> NullStr, alias |-> NullStr,
       program_name |-> P_AN, role_label |-> L_B],
      \* an unparseable stored URL and a title whose canonical name is empty
      [id |-> "r5", firm_id |-> "f1", url |-> U_BAD, title |-> T_E,
       canonical_name |-> NullStr, alias |-> NullStr,
       program_name |-> <<>>, role_label |-> L_B],
      \* a role of another firm
      [id |-> "r6", firm_id |-> "f2", url |-> U_AQ, title |-> T_A,
       canonical_name |-> NullStr, alias |-> NullStr,
       program_name |-> P_AN, role_label |-> L_B] }

WithIsOpen(shape, o) ==
    [id |-> shape.id, firm_id |-> shape.firm_id, url |-> shape.url,
     title |-> shape.title, canonical_name |-> shape.canonical_name,
     alias |-> shape.alias, program_name |-> shape.program_name,
     role_label |-> shape.role_label, is_open |-> o]

RoleRows == {WithIsOpen(sh, o) : sh \in RoleRowShapes, o \in IsOpenValues}

\* the program_roles tables of the model: at most MaxExistingRoles rows,
\* no two with the same id
RoleTables ==
    {t \in SUBSET RoleRows :
        /\ Cardinality(t) <= MaxExistingRoles
        /\ \A a, b \in t : a.id = b.id => a = b}

\* a row of role_discovery_drafts
Draft(firm, url, erid, utype, status, title, ver, pdid) ==
    [firm_id |-> firm, url |-> url, existing_role_id |-> erid,
     update_type |-> utype, status |-> status,
     scraped_data |-> [title |-> title, ver |-> ver],
     programme_discovery_draft_id |-> pdid]

\* drafts an admin has decided before the run
DecidedDraftRows ==
    { Draft("f1", U_A, Null, "NEW_ROLE", "dismissed", NullStr, "s1", Null),
      Draft("f1", U_B, Null, "NEW_ROLE", "dismissed", T_A, "s1", Null),
      Draft("f1", U_B, Null, "NEW_ROLE", "approved", T_C, "s1", Null),
      Draft("f2", U_BAD, Null, "NEW_ROLE", "dismissed", T_C, "s1", Null) }

\* all sequences without repetition over the members of the finite set S
RECURSIVE Orderings(_)
Orderings(S) ==
    IF S = {} THEN {<<>>}
    ELSE UNION {{<<x>> \o rest : rest \in Orderings(S \ {x})} : x \in S}

\* the members of a sequence
Range(seq) == {seq[i] : i \in 1..Len(seq)}

\* one table for each set of at most MaxDismissedRows decided drafts
DraftTablesOfRun ==
    {CHOOSE seq \in Orderings(t) : TRUE :
        t \in {u \in SUBSET DecidedDraftRows : Cardinality(u) <= MaxDismissedRows}}

\* ------------------------------------------------------------ loadExistingRoles
\* one iteration of the indexing loop
IndexRole(acc, role) ==
    LET synthesized ==
            IF Truthy(role.program_name)
            THEN IF Truthy(role.alias)
                 THEN role.program_name \o <<" ","-"," ">> \o role.alias
                 ELSE role.program_name \o <<" ","-"," ">> \o
                      (IF Truthy(role.role_label) THEN role.role_label ELSE <<>>)
            ELSE role.title
        effectiveTitle == IF Truthy(role.title) THEN role.title ELSE synthesized
        effectiveCanonicalName ==
            IF ~Truthy(role.canonical_name) /\ Truthy(effectiveTitle)
            THEN extractCanonicalName(effectiveTitle)
            ELSE role.canonical_name
        existingRole ==
            [id |-> role.id, url |-> role.url,
             canonical_name |-> effectiveCanonicalName,
             is_open |-> role.is_open, title |-> effectiveTitle]
        byUrl1 == IF Truthy(role.url)
                  THEN MapSet(acc.byUrl, normalizeUrl(role.url), existingRole)
                  ELSE acc.byUrl
        byName1 == IF Truthy(effectiveCanonicalName)
                   THEN MapSet(acc.byName, effectiveCanonicalName, existingRole)
                   ELSE acc.byName
    IN [byUrl |-> byUrl1, byName |-> byName1]

RECURSIVE IndexRoles(_, _, _)
IndexRoles(roles, i, acc) ==
    IF i > Len(roles) THEN acc
    ELSE IndexRoles(roles, i + 1, IndexRole(acc, roles[i]))

\* the error of the query is not looked at: the rows are indexed
loadExistingRoles_IgnoreError(roles, error) ==
    IndexRoles(roles, 1, [byUrl |-> EmptyMap, byName |-> EmptyMap])

\* roles: the rows the query returned, in the order it returned them
loadExistingRoles(roles, error) ==
    IF error THEN [byUrl |-> EmptyMap, byName |-> EmptyMap]
    ELSE IF roles = <<>> THEN [byUrl |-> EmptyMap, byName |-> EmptyMap]
    ELSE IndexRoles(roles, 1, [byUrl |-> EmptyMap, byName |-> EmptyMap])

\* ---------------------------------------------------------- loadDismissedDrafts
IndexDismissed(acc, draft) ==
    IF ~Truthy(draft.url) THEN acc
    ELSE LET canonicalName ==
                 IF Truthy(draft.scraped_data.title)
                 THEN extractCanonicalName(draft.scraped_data.title)
                 ELSE NullStr
             dismissedDraft == [url |-> draft.url, canonical_name |-> canonicalName]
         IN [byUrl |-> MapSet(acc.byUrl, normalizeUrl(draft.url), dismissedDraft),
             byName |-> IF Truthy(canonicalName)
                        THEN MapSet(acc.byName, canonicalName, dismissedDraft)
                        ELSE acc.byName]

RECURSIVE IndexAllDismissed(_, _, _)
IndexAllDismissed(drafts, i, acc) ==
    IF i > Len(drafts) THEN acc
    ELSE IndexAllDismissed(drafts, i + 1, IndexDismissed(acc, drafts[i]))

loadDismissedDrafts(drafts, error) ==
    IF error THEN [byUrl |-> EmptyMap, byName |-> EmptyMap]
    ELSE IF drafts = <<>> THEN [byUrl |-> EmptyMap, byName |-> EmptyMap]
    ELSE IndexAllDismissed(drafts, 1, [byUrl |-> EmptyMap, byName |-> EmptyMap])

\* .from('role_discovery_drafts').eq('firm_id', firmId).eq('status', 'dismissed')
RECURSIVE DismissedDraftsQuery(_, _)
DismissedDraftsQuery(table, firmId) ==
    IF table = <<>> THEN <<>>
    ELSE IF Head(table).firm_id = firmId /\ Head(table).status = "dismissed"
    THEN <<Head(table)>> \o DismissedDraftsQuery(Tail(table), firmId)
    ELSE DismissedDraftsQuery(Tail(table), firmId)

\* .from('program_roles') ... .eq('programs.firm_id', firmId)
ExistingRolesQuery(table, firmId) == {r \in table : r.firm_id = firmId}

\* ----------------------------------------------------------- classifyRoleAction
Result(action, existingRoleId, urlChanged) ==
    [action |-> action, existingRoleId |-> existingRoleId, urlChanged |-> urlChanged]

\* mutant: a closed role found by URL is reported with urlChanged = true
UrlMatchResult_ClosedUrlChanged(existingByUrlMatch) ==
    IF existingByUrlMatch.is_open = "true"
    THEN Result("SKIP", existingByUrlMatch.id, Undefined)
    ELSE IF existingByUrlMatch.is_open = "false"
    THEN Result("REOPENING", existingByUrlMatch.id, "true")
    ELSE Result("URL_CHANGED", existingByUrlMatch.id, Undefined)

\* mutant: only an explicitly closed role is re-extracted, unknown status skips
UrlMatchResult_UnknownSkips(existingByUrlMatch) ==
    IF existingByUrlMatch.is_open # "false"
    THEN Result("SKIP", existingByUrlMatch.id, Undefined)
    ELSE Result("REOPENING", existingByUrlMatch.id, "false")

\* mutant: an open role found by URL is sent to re-extraction
UrlMatchResult_OpenReextracted(existingByUrlMatch) ==
    IF existingByUrlMatch.is_open = "false"
    THEN Result("REOPENING", existingByUrlMatch.id, "false")
    ELSE Result("URL_CHANGED", existingByUrlMatch.id, Undefined)

\* Check 1, the branch taken when the normalized URL is indexed
UrlMatchResult(existingByUrlMatch) ==
    IF existingByUrlMatch.is_open = "true"
    THEN Result("SKIP", existingByUrlMatch.id, Undefined)
    ELSE IF existingByUrlMatch.is_open = "false"
    THEN Result("REOPENING", existingByUrlMatch.id, "false")
    ELSE Result("URL_CHANGED", existingByUrlMatch.id, Undefined)

\* mutant: an open role found by name only is skipped like one found by URL
NameMatchResult_OpenSkips(existingByNameMatch) ==
    IF existingByNameMatch.is_open = "false"
    THEN Result("REOPENING", existingByNameMatch.id, "true")
    ELSE IF existingByNameMatch.is_open = "true"
    THEN Result("SKIP", existingByNameMatch.id, Undefined)
    ELSE Result("URL_CHANGED", existingByNameMatch.id, Undefined)

\* Check 2, the branch taken when only the canonical name is indexed
NameMatchResult(existingByNameMatch) ==
    IF existingByNameMatch.is_open = "false"
    THEN Result("REOPENING", existingByNameMatch.id, "true")
    ELSE Result("URL_CHANGED", existingByNameMatch.id, Undefined)

\* mutant: existing roles are looked up before the dismissed drafts
classifyRoleAction_ExistingFirst(roleUrl, roleTitle, existingByUrl, existingByName, dismissedByUrl, dismissedByName) ==
    LET normalizedUrl == normalizeUrl(roleUrl)
        canonicalName == extractCanonicalName(roleTitle)
    IN IF MapHas(existingByUrl, normalizedUrl)
       THEN UrlMatchResult(existingByUrl[normalizedUrl])
       ELSE IF MapHas(existingByName, canonicalName)
       THEN NameMatchResult(existingByName[canonicalName])
       ELSE IF MapHas(dismissedByUrl, normalizedUrl)
       THEN Result("SKIP", Undefined, Undefined)
       ELSE IF MapHas(dismissedByName, canonicalName)
       THEN Result("SKIP", Undefined, Undefined)
       ELSE Result("NEW_ROLE", Undefined, Undefined)

\* mutant: the canonical name is looked up before the URL
classifyRoleAction_NameFirst(roleUrl, roleTitle, existingByUrl, existingByName, dismissedByUrl, dismissedByName) ==
    LET normalizedUrl == normalizeUrl(roleUrl)
        canonicalName == extractCanonicalName(roleTitle)
    IN IF MapHas(dismissedByUrl, normalizedUrl)
       THEN Result("SKIP", Undefined, Undefined)
       ELSE IF MapHas(dismissedByName, canonicalName)
       THEN Result("SKIP", Undefined, Undefined)
       ELSE IF MapHas(existingByName, canonicalName)
       THEN NameMatchResult(existingByName[canonicalName])
       ELSE IF MapHas(existingByUrl, normalizedUrl)
       THEN UrlMatchResult(existingByUrl[normalizedUrl])
       ELSE Result("NEW_ROLE", Undefined, Undefined)

\* mutant: the canonical name of an existing role is not consulted
classifyRoleAction_NoNameCheck(roleUrl, roleTitle, existingByUrl, existingByName, dismissedByUrl, dismissedByName) ==
    LET normalizedUrl == normalizeUrl(roleUrl)
        canonicalName == extractCanonicalName(roleTitle)
    IN IF MapHas(dismissedByUrl, normalizedUrl)
       THEN Result("SKIP", Undefined, Undefined)
       ELSE IF MapHas(dismissedByName, canonicalName)
       THEN Result("SKIP", Undefined, Undefined)
       ELSE IF MapHas(existingByUrl, normalizedUrl)
       THEN UrlMatchResult(existingByUrl[normalizedUrl])
       ELSE Result("NEW_ROLE", Undefined, Undefined)

classifyRoleAction(roleUrl, roleTitle, existingByUrl, existingByName, dismissedByUrl, dismissedByName) ==
    LET normalizedUrl == normalizeUrl(roleUrl)
        canonicalName == extractCanonicalName(roleTitle)
    IN IF MapHas(dismissedByUrl, normalizedUrl)
       THEN Result("SKIP", Undefined, Undefined)
       ELSE IF MapHas(dismissedByName, canonicalName)
       THEN Result("SKIP", Undefined, Undefined)
       ELSE IF MapHas(existingByUrl, normalizedUrl)
       THEN UrlMatchResult(existingByUrl[normalizedUrl])
       ELSE IF MapHas(existingByName, canonicalName)
       THEN NameMatchResult(existingByName[canonicalName])
       ELSE Result("NEW_ROLE", Undefined, Undefined)

\* ------------------------------------------------------ saveRoleDiscoveryDraft
\* the argument of saveRoleDiscoveryDraft
SaveData(firmId, url, existingRoleId, updateType, ver, programmeDraftId) ==
    [firmId |-> firmId, url |-> url, existingRoleId |-> existingRoleId,
     updateType |-> updateType, scrapedRole |-> [title |-> T_A, ver |-> ver],
     programmeDraftId |-> programmeDraftId]

\* truthiness of a nullable identifier
TruthyId(id) == id # Null /\ id # Undefined /\ id # ""

\* the rows a lookup of saveRoleDiscoveryDraft selects: by existing_role_id
\* when one is given, else by URL; ids are positions in the table, later rows
\* have later created_at
MatchingDrafts(table, data) ==
    {i \in 1..Len(table) :
        /\ table[i].firm_id = data.firmId
        /\ IF TruthyId(data.existingRoleId)
           THEN table[i].existing_role_id = data.existingRoleId
           ELSE table[i].url = data.url}

\* Step 1: .order('created_at', { ascending: false }).limit(1).maybeSingle();
\* id 0 stands for "no row"
FindExistingDraft(table, data) ==
    LET m == MatchingDrafts(table, data)
    IN IF m = {} THEN [id |-> 0, status |-> Null]
       ELSE LET latest == CHOOSE i \in m : \A j \in m : j <= i
            IN [id |-> latest, status |-> table[latest].status]

\* const draftData = {...}
DraftData(data) ==
    Draft(data.firmId, data.url, data.existingRoleId,
          IF data.updateType = "SKIP" THEN Null ELSE data.updateType,
          "pending", data.scrapedRole.title, data.scrapedRole.ver,
          data.programmeDraftId)

\* mutant: a pending draft is refreshed with the new data, as the comment
\* above the function announces
StoreRoleDraft_RefreshPending(table, existingDraft, data, insertError) ==
    IF existingDraft.id # 0 /\ existingDraft.status = "pending"
    THEN [table |-> [table EXCEPT ![existingDraft.id] = DraftData(data)],
          id |-> existingDraft.id]
    ELSE IF insertError THEN [table |-> table, id |-> 0]
    ELSE [table |-> Append(table, DraftData(data)), id |-> Len(table) + 1]

\* mutant: a decided draft is put back to pending with the fresh data
StoreRoleDraft_ReuseDecided(table, existingDraft, data, insertError) ==
    IF existingDraft.id # 0 /\ existingDraft.status = "pending"
    THEN [table |-> table, id |-> existingDraft.id]
    ELSE IF insertError THEN [table |-> table, id |-> 0]
    ELSE IF existingDraft.id # 0
    THEN [table |-> [table EXCEPT ![existingDraft.id] = DraftData(data)],
          id |-> existingDraft.id]
    ELSE [table |-> Append(table, DraftData(data)), id |-> Len(table) + 1]

\* Step 2 and the insert: existingDraft is what step 1 returned; the result is
\* the table afterwards and the id returned (0 for null)
StoreRoleDraft(table, existingDraft, data, insertError) ==
    IF existingDraft.id # 0 /\ existingDraft.status = "pending"
    THEN [table |-> table, id |-> existingDraft.id]
    ELSE IF insertError THEN [table |-> table, id |-> 0]
    ELSE [table |-> Append(table, DraftData(data)), id |-> Len(table) + 1]

\* a call that no other store operation overlaps
saveRoleDiscoveryDraft(table, data, insertError) ==
    StoreRoleDraft(table, FindExistingDraft(table, data), data, insertError)

\* ---------------------------------------------------------- dismissDiscoveries
\* .update({ status: 'dismissed' }).in('id', roleDraftIds)
dismissDiscoveries(table, roleDraftIds, updateError) ==
    IF roleDraftIds = {} \/ updateError THEN table
    ELSE [i \in 1..Len(table) |->
            IF i \in roleDraftIds
            THEN [table[i] EXCEPT !.status = "dismissed"]
            ELSE table[i]]

\* no row
NoRow == Draft(Null, NullStr, Null, Null, Null, NullStr, Null, Null)
\* no call yet
NoCall == [op |-> "none", data |-> SaveData(Null, NullStr, Null, Null, Null, Null),
           insertError |-> FALSE, found |-> 0, foundRow |-> NoRow,
           lenBefore |-> 0, ret |-> 0,
           repeated |-> FALSE, prevRet |-> 0, prevRow |-> NoRow]

\* ------------------------------------------------------------------- state
VARIABLES
    program_roles,          \* table program_roles (joined rows), a set
    role_discovery_drafts,  \* table role_discovery_drafts, in insertion order
    existingRoles,          \* result of loadExistingRoles: [byUrl, byName]
    dismissedDrafts,        \* result of loadDismissedDrafts: [byUrl, byName]
    pc,                     \* position of the run
    maxPages,               \* scraperConfig.maxPages
    pagesProcessed,
    rolesFound,
    rolesSkipped,
    seenUrls,
    collectedLinks,
    classifiedLinks,        \* classifiedLinks of the page processed last
    lastCall,               \* the store call completed last, with its outcome
    procs,                  \* the saveRoleDiscoveryDraft calls in flight
    programme_discovery_drafts, \* table programme_discovery_drafts, in insertion order
    programs,               \* table programs, in insertion order
    progCall,               \* the programme-draft call completed last
    tasks,                  \* the detail tasks of the run
    maxRoles,               \* scraperConfig.maxRoles
    saveCall,               \* the saveDiscovery call completed last
    job,                    \* runExplorationJob: phase flag, request queue, metrics
    fnIn,                   \* the argument of the function applied last
    fnOut,                  \* what that application returned
    scrape_urls             \* table scrape_urls: the row of each listing

tableVars == <<program_roles, role_discovery_drafts>>
indexVars == <<existingRoles, dismissedDrafts>>
listVars == <<maxPages, pagesProcessed, rolesFound, rolesSkipped, seenUrls,
              collectedLinks>>
storeVars == <<lastCall, procs>>
progVars == <<programme_discovery_drafts, programs, progCall>>
flowVars == <<maxRoles, saveCall>>
fnVars == <<fnIn, fnOut>>
metricVars == <<scrape_urls>>
extVars == <<progVars, tasks, flowVars, job, fnVars, metricVars>>
vars == <<tableVars, indexVars, pc, listVars, classifiedLinks, storeVars, extVars>>

NoIndex == [byUrl |-> EmptyMap, byName |-> EmptyMap]

\* values of the variables a specification does not use
IdleList ==
    /\ maxPages = 0
    /\ pagesProcessed = 0
    /\ rolesFound = 0
    /\ rolesSkipped = 0
    /\ seenUrls = {}
    /\ collectedLinks = <<>>

IdleStore ==
    /\ lastCall = NoCall
    /\ procs = <<>>

NoProgCall == [op |-> "none"]

IdleProg ==
    /\ programme_discovery_drafts = <<>>
    /\ programs = <<>>
    /\ progCall = NoProgCall

NoSaveCall == [op |-> "none"]
\* scraperConfig.maxRoles ?? null: no limit configured
NoMaxRoles == -1
NoJob == [phase |-> "none"]

IdleFlow ==
    /\ maxRoles = NoMaxRoles
    /\ saveCall = NoSaveCall

IdleFn ==
    /\ fnIn = <<>>
    /\ fnOut = <<>>

\* no listing
IdleMetrics == scrape_urls = <<>>

IdleExt ==
    /\ IdleProg
    /\ tasks = <<>>
    /\ IdleFlow
    /\ job = NoJob
    /\ IdleFn
    /\ IdleMetrics

\* ------------------------------------------------- the resolver on one link
\* a link as the list phase keeps it after classification
ClassifiedLink(jobLink, result) ==
    [url |-> jobLink.url, title |-> jobLink.title, action |-> result.action,
     existingRoleId |-> result.existingRoleId, urlChanged |-> result.urlChanged]

ClassifyLink(jobLink) ==
    ClassifiedLink(jobLink,
        classifyRoleAction(jobLink.url, jobLink.title,
                           existingRoles.byUrl, existingRoles.byName,
                           dismissedDrafts.byUrl, dismissedDrafts.byName))

InitResolve ==
    /\ IdleExt
    /\ program_roles \in RoleTables
    /\ role_discovery_drafts \in DraftTablesOfRun
    /\ existingRoles = NoIndex
    /\ dismissedDrafts = NoIndex
    /\ pc = "start"
    /\ classifiedLinks = <<>>
    /\ IdleList
    /\ IdleStore

\* runListPhase, the two loads that open the run; the store returns the rows
\* of each query in an order of its choosing
LoadIndexes ==
    /\ pc = "start"
    /\ \E roles \in Orderings(ExistingRolesQuery(program_roles, RunFirm)) :
          existingRoles' = loadExistingRoles(roles, FALSE)
    /\ \E drafts \in Orderings(Range(DismissedDraftsQuery(role_discovery_drafts, RunFirm))) :
          dismissedDrafts' = loadDismissedDrafts(drafts, FALSE)
    /\ pc' = "loaded"
    /\ UNCHANGED <<tableVars, listVars, classifiedLinks, storeVars, extVars>>

\* classifyRoleAction applied to one candidate link
ResolveOne ==
    /\ pc = "loaded"
    /\ \E u \in CandidateUrls, t \in CandidateTitles :
          classifiedLinks' = <<ClassifyLink([url |-> u, title |-> t])>>
    /\ UNCHANGED <<tableVars, indexVars, pc, listVars, storeVars, extVars>>

NextResolve == LoadIndexes \/ ResolveOne

SpecResolve == InitResolve /\ [][NextResolve]_vars

\* ------------------------------------------------ claims on the resolver
\* the identity keys of a classified link
KeyUrl(l) == normalizeUrl(l.url)
KeyName(l) == extractCanonicalName(l.title)
DismissedLink(l) ==
    \/ KeyUrl(l) \in DOMAIN dismissedDrafts.byUrl
    \/ KeyName(l) \in DOMAIN dismissedDrafts.byName
UrlIndexed(l) == KeyUrl(l) \in DOMAIN existingRoles.byUrl
NameIndexed(l) == KeyName(l) \in DOMAIN existingRoles.byName
RoleByUrl(l) == existingRoles.byUrl[KeyUrl(l)]
RoleByName(l) == existingRoles.byName[KeyName(l)]
Links == {classifiedLinks[i] : i \in 1..Len(classifiedLinks)}

\* C1: a candidate whose normalized URL or canonical name is indexed as
\* dismissed is classified SKIP without an existingRoleId, whatever the
\* existing-role indexes hold for it.
C1_DismissedAlwaysSkip ==
    \A l \in Links :
        DismissedLink(l) => l.action = "SKIP" /\ l.existingRoleId = Undefined

\* a dismissed candidate that also matches an existing role that is not open
C1_Witness ==
    \E l \in Links :
        /\ DismissedLink(l)
        /\ \/ UrlIndexed(l) /\ RoleByUrl(l).is_open # "true"
           \/ NameIndexed(l) /\ RoleByName(l).is_open # "true"
        /\ l.action = "SKIP"

\* C3: a candidate that is not dismissed and whose normalized URL is that of
\* an existing role with is_open = false is classified REOPENING with
\* urlChanged = false and that role's id.
C3_ClosedByUrlReopens ==
    \A l \in Links :
        (~DismissedLink(l) /\ UrlIndexed(l) /\ RoleByUrl(l).is_open = "false")
        => /\ l.action = "REOPENING"
           /\ l.urlChanged = "false"
           /\ l.existingRoleId = RoleByUrl(l).id

C3_Witness ==
    \E l \in Links :
        /\ ~DismissedLink(l) /\ UrlIndexed(l) /\ RoleByUrl(l).is_open = "false"
        /\ l.url # RoleByUrl(l).url
        /\ l.action = "REOPENING"

\* C4: a candidate that is not dismissed and whose normalized URL is that of
\* an existing role with is_open = null is classified URL_CHANGED with that
\* role's id, never SKIP and never REOPENING.
C4_UnknownByUrlReextracts ==
    \A l \in Links :
        (~DismissedLink(l) /\ UrlIndexed(l) /\ RoleByUrl(l).is_open = Null)
        => /\ l.action = "URL_CHANGED"
           /\ l.action \notin {"SKIP", "REOPENING"}
           /\ l.existingRoleId = RoleByUrl(l).id

C4_Witness ==
    \E l \in Links :
        /\ ~DismissedLink(l) /\ UrlIndexed(l) /\ RoleByUrl(l).is_open = Null
        /\ l.action = "URL_CHANGED"

\* C5: a candidate that is not dismissed, has no URL match and whose canonical
\* name is that of an existing role is classified REOPENING with
\* urlChanged = true when the role is closed and URL_CHANGED otherwise, never
\* SKIP; a result that names a role without stored URL and with is_open = null
\* is URL_CHANGED.
C5_NameOnlyMatch ==
    /\ \A l \in Links :
        (~DismissedLink(l) /\ ~UrlIndexed(l) /\ NameIndexed(l))
        => /\ l.existingRoleId = RoleByName(l).id
           /\ l.action # "SKIP"
           /\ IF RoleByName(l).is_open = "false"
              THEN l.action = "REOPENING" /\ l.urlChanged = "true"
              ELSE l.action = "URL_CHANGED"
    /\ \A l \in Links : \A r \in program_roles :
        (r.firm_id = RunFirm /\ ~Truthy(r.url) /\ r.is_open = Null
            /\ l.existingRoleId = r.id)
        => l.action = "URL_CHANGED"

\* a name-only match on a legacy role (no stored URL) of unknown status
C5_Witness ==
    \E l \in Links :
        /\ ~DismissedLink(l) /\ ~UrlIndexed(l) /\ NameIndexed(l)
        /\ ~Truthy(RoleByName(l).url) /\ RoleByName(l).is_open = Null
        /\ l.action = "URL_CHANGED"

\* the result the URL branch gives for a role, from its is_open alone
ByUrlOutcome(role) ==
    CASE role.is_open = "true" -> "SKIP"
      [] role.is_open = "false" -> "REOPENING"
      [] OTHER -> "URL_CHANGED"

\* C6: when the normalized URL of a candidate that is not dismissed matches
\* role A and its canonical name matches another role B, action and
\* existingRoleId are those A alone gives.
C6_UrlBeatsName ==
    \A l \in Links :
        (/\ ~DismissedLink(l) /\ UrlIndexed(l) /\ NameIndexed(l)
         /\ RoleByUrl(l).id # RoleByName(l).id)
        => /\ l.existingRoleId = RoleByUrl(l).id
           /\ l.action = ByUrlOutcome(RoleByUrl(l))

\* A and B differ in is_open, so that the name branch would answer otherwise
C6_Witness ==
    \E l \in Links :
        /\ ~DismissedLink(l) /\ UrlIndexed(l) /\ NameIndexed(l)
        /\ RoleByUrl(l).id # RoleByName(l).id
        /\ RoleByUrl(l).is_open # RoleByName(l).is_open
        /\ l.existingRoleId = RoleByUrl(l).id

\* C7: every candidate gets one of the four actions; NEW_ROLE exactly when the
\* candidate matches none of the four indexes; an existingRoleId exactly when
\* an existing-role match decided.
C7_TotalAndNewRole ==
    \A l \in Links :
        /\ l.action \in Actions
        /\ l.action = "NEW_ROLE"
             <=> ~(DismissedLink(l) \/ UrlIndexed(l) \/ NameIndexed(l))
        /\ l.existingRoleId # Undefined
             <=> (~DismissedLink(l) /\ (UrlIndexed(l) \/ NameIndexed(l)))

\* a candidate that matches nothing, among indexes that are not empty
C7_Witness ==
    \E l \in Links :
        /\ l.action = "NEW_ROLE"
        /\ DOMAIN existingRoles.byUrl # {}
        /\ DOMAIN existingRoles.byName # {}
        /\ DOMAIN dismissedDrafts.byUrl # {}

\* ------------------------------------------------------------ runListPhase
\* classification.jobLinks.map(jobLink => classifyRoleAction(...))
RECURSIVE ClassifyLinks(_)
ClassifyLinks(jobLinks) ==
    IF jobLinks = <<>> THEN <<>>
    ELSE <<ClassifyLink(Head(jobLinks))>> \o ClassifyLinks(Tail(jobLinks))

\* classifiedLinks.filter(l => l.action !== 'SKIP')
RECURSIVE NonSkipLinks(_)
NonSkipLinks(links) ==
    IF links = <<>> THEN <<>>
    ELSE IF Head(links).action # "SKIP"
    THEN <<Head(links)>> \o NonSkipLinks(Tail(links))
    ELSE NonSkipLinks(Tail(links))

\* classifiedLinks.filter(l => l.action === 'SKIP').length
SkipCount(links) == Cardinality({i \in 1..Len(links) : links[i].action = "SKIP"})

\* for (const link of toCollect) { dedup by normalized URL, then push }
RECURSIVE CollectLinks(_, _)
CollectLinks(toCollect, acc) ==
    IF toCollect = <<>> THEN acc
    ELSE LET link == Head(toCollect)
             normalized == normalizeUrl(link.url)
         IN IF normalized \in acc.seen
            THEN CollectLinks(Tail(toCollect), acc)
            ELSE CollectLinks(Tail(toCollect),
                    [seen |-> acc.seen \cup {normalized},
                     collected |-> Append(acc.collected, link)])

\* links the classifier can return for a page
JobLinks ==
    { [url |-> U_A, title |-> T_A], [url |-> U_AQ, title |-> T_C],
      [url |-> U_B, title |-> T_C], [url |-> U_B, title |-> T_A] }
JobLinkSeqs == UNION {[1..n -> JobLinks] : n \in 0..MaxLinksPerPage}

\* tables of the list-phase runs: the scraped role r1 alone or with the role
\* r4, each open, closed or of unknown status, and no or one dismissed draft
ListRoleTables ==
    {t \in SUBSET RoleRows :
        /\ {r.id : r \in t} \in {{"r1"}, {"r1", "r4"}}
        /\ \A a, b \in t : a.id = b.id => a = b}
ListDraftTables ==
    {<<>>, <<Draft("f1", U_B, Null, "NEW_ROLE", "dismissed", T_E, "s1", Null)>>}

InitList ==
    /\ IdleExt
    /\ program_roles \in ListRoleTables
    /\ role_discovery_drafts \in ListDraftTables
    /\ existingRoles = NoIndex
    /\ dismissedDrafts = NoIndex
    /\ pc = "start"
    /\ classifiedLinks = <<>>
    /\ maxPages \in 0..MaxPagesCfg
    /\ pagesProcessed = 0
    /\ rolesFound = 0
    /\ rolesSkipped = 0
    /\ seenUrls = {}
    /\ collectedLinks = <<>>
    /\ IdleStore

\* the loop runs one page past the cap
LoopContinues_PastCap(processed, cap) == processed <= cap

\* while (pagesProcessed < maxPages)
LoopContinues(processed, cap) == processed < cap

\* one iteration of the pagination loop that found no link on the page
ListPageEmpty ==
    /\ pc = "loaded"
    /\ LoopContinues(pagesProcessed, maxPages)
    /\ pagesProcessed' = pagesProcessed + 1
    /\ classifiedLinks' = <<>>
    /\ pc' = "listed"
    /\ UNCHANGED <<tableVars, indexVars, maxPages, rolesFound, rolesSkipped,
                   seenUrls, collectedLinks, storeVars, extVars>>

\* one iteration of the pagination loop on a page with links: the classifier
\* returns jobLinks, clickPaginationNext returns hasMorePages
ListPage ==
    /\ pc = "loaded"
    /\ LoopContinues(pagesProcessed, maxPages)
    /\ \E jobLinks \in JobLinkSeqs :
          classifiedLinks' = ClassifyLinks(jobLinks)
    /\ pagesProcessed' = pagesProcessed + 1
    /\ rolesFound' = rolesFound + Len(classifiedLinks')
    /\ rolesSkipped' = rolesSkipped + SkipCount(classifiedLinks')
    /\ \E acc \in {CollectLinks(NonSkipLinks(classifiedLinks'),
                                [seen |-> seenUrls, collected |-> collectedLinks])} :
          /\ seenUrls' = acc.seen
          /\ collectedLinks' = acc.collected
    /\ \E hasMorePages \in BOOLEAN :
          pc' = IF hasMorePages THEN "loaded" ELSE "listed"
    /\ UNCHANGED <<tableVars, indexVars, maxPages, storeVars, extVars>>

\* the loop condition pagesProcessed < maxPages fails
ListLoopExit ==
    /\ pc = "loaded"
    /\ ~LoopContinues(pagesProcessed, maxPages)
    /\ pc' = "listed"
    /\ UNCHANGED <<tableVars, indexVars, listVars, classifiedLinks, storeVars, extVars>>

NextList == LoadIndexes \/ ListPageEmpty \/ ListPage \/ ListLoopExit

SpecList == InitList /\ [][NextList]_vars

Collected == {collectedLinks[i] : i \in 1..Len(collectedLinks)}

\* C2: a candidate that is not dismissed and whose normalized URL is that of
\* an existing role with is_open = true is classified SKIP with that role's
\* id, and the list phase never collects such a link.
C2_OpenByUrlSkipped ==
    /\ \A l \in Links :
        (~DismissedLink(l) /\ UrlIndexed(l) /\ RoleByUrl(l).is_open = "true")
        => l.action = "SKIP" /\ l.existingRoleId = RoleByUrl(l).id
    /\ \A l \in Collected :
        ~(~DismissedLink(l) /\ UrlIndexed(l) /\ RoleByUrl(l).is_open = "true")

\* a page held a link to an open existing role, under a URL that differs from
\* the stored one, next to a link that was collected
C2_Witness ==
    /\ \E l \in Links :
        /\ ~DismissedLink(l) /\ UrlIndexed(l) /\ RoleByUrl(l).is_open = "true"
        /\ l.url # RoleByUrl(l).url
        /\ l.action = "SKIP"
    /\ collectedLinks # <<>>
    /\ rolesSkipped > 0

\* ------------------------------------------------ the draft store, call by call
StoreUrls == {U_A, U_AQ}
StoreRoleIds == {Null, "r1"}
StoreVersions == {"s1", "s2"}
\* the arguments the detail phase passes: an update type that fits the id
StoreCalls ==
    {SaveData(RunFirm, u, e, IF e = Null THEN "NEW_ROLE" ELSE "URL_CHANGED", v, Null) :
        u \in StoreUrls, e \in StoreRoleIds, v \in StoreVersions}

\* drafts in the store before the calls: none, or one an admin has decided
StoreInitRows ==
    { Draft("f1", U_A, Null, "NEW_ROLE", "approved", T_A, "s1", Null),
      Draft("f1", U_AQ, "r1", "URL_CHANGED", "dismissed", T_A, "s1", Null),
      Draft("f2", U_A, "r1", "URL_CHANGED", "pending", T_A, "s1", Null) }

InitStoreTables ==
    /\ IdleExt
    /\ program_roles = {}
    /\ role_discovery_drafts \in {<<>>} \cup {<<d>> : d \in StoreInitRows}
    /\ existingRoles = NoIndex
    /\ dismissedDrafts = NoIndex
    /\ pc = "store"
    /\ classifiedLinks = <<>>
    /\ IdleList

InitStore ==
    /\ InitStoreTables
    /\ IdleStore
    /\ IdleMetrics

SameKey(a, b) ==
    /\ a.firmId = b.firmId
    /\ TruthyId(a.existingRoleId) = TruthyId(b.existingRoleId)
    /\ IF TruthyId(a.existingRoleId)
       THEN a.existingRoleId = b.existingRoleId
       ELSE a.url = b.url

\* one call of saveRoleDiscoveryDraft, from lookup to return
SaveRoleDraftCall ==
    /\ pc = "store"
    /\ \E data \in StoreCalls, insertError \in BOOLEAN :
        /\ \E out \in {saveRoleDiscoveryDraft(role_discovery_drafts, data, insertError)} :
            /\ Len(out.table) <= MaxDrafts
            /\ role_discovery_drafts' = out.table
            /\ \E existing \in {FindExistingDraft(role_discovery_drafts, data)} :
               \E rep \in {/\ lastCall.op = "save" /\ lastCall.ret # 0
                           /\ SameKey(lastCall.data, data)} :
                lastCall' =
                    [op |-> "save", data |-> data, insertError |-> insertError,
                     found |-> existing.id,
                     foundRow |-> IF existing.id = 0 THEN NoRow
                                  ELSE role_discovery_drafts[existing.id],
                     lenBefore |-> Len(role_discovery_drafts),
                     ret |-> out.id,
                     repeated |-> rep,
                     prevRet |-> IF rep THEN lastCall.ret ELSE 0,
                     prevRow |-> IF rep THEN role_discovery_drafts[lastCall.ret]
                                 ELSE NoRow]
    /\ UNCHANGED <<program_roles, indexVars, pc, listVars, classifiedLinks, procs, extVars>>

\* an admin dismisses role drafts: dismissDiscoveries([], roleDraftIds)
DismissCall ==
    /\ pc = "store"
    /\ \E ids \in SUBSET (1..Len(role_discovery_drafts)), updateError \in BOOLEAN :
        /\ ids # {}
        /\ role_discovery_drafts' =
               dismissDiscoveries(role_discovery_drafts, ids, updateError)
        /\ lastCall' = [NoCall EXCEPT !.op = "dismiss",
                                      !.lenBefore = Len(role_discovery_drafts)]
    /\ UNCHANGED <<program_roles, indexVars, pc, listVars, classifiedLinks, procs, extVars>>

NextStore == SaveRoleDraftCall \/ DismissCall

SpecStore == InitStore /\ [][NextStore]_vars

IdleProc == [pc |-> "idle", data |-> SaveData(Null, NullStr, Null, Null, Null, Null),
             existingDraft |-> [id |-> 0, status |-> Null]]

InitConc ==
    /\ InitStoreTables
    /\ lastCall = NoCall
    /\ procs = [p \in 1..MaxProcs |-> IdleProc]
    /\ IdleMetrics

\* process p enters saveRoleDiscoveryDraft and the store answers its lookup
ProcLookup(p) ==
    /\ pc = "store"
    /\ procs[p].pc = "idle"
    /\ \E data \in StoreCalls :
          procs' = [procs EXCEPT ![p] =
                       [pc |-> "found", data |-> data,
                        existingDraft |-> FindExistingDraft(role_discovery_drafts, data)]]
    /\ UNCHANGED <<tableVars, indexVars, pc, listVars, classifiedLinks, lastCall, extVars>>

\* process p acts on what its lookup returned: it returns the pending draft,
\* or the store executes its insert
ProcStore(p) ==
    /\ pc = "store"
    /\ procs[p].pc = "found"
    /\ \E insertError \in BOOLEAN :
       \E out \in {StoreRoleDraft(role_discovery_drafts, procs[p].existingDraft,
                                  procs[p].data, insertError)} :
          /\ Len(out.table) <= MaxDrafts
          /\ role_discovery_drafts' = out.table
    /\ procs' = [procs EXCEPT ![p] = IdleProc]
    /\ UNCHANGED <<program_roles, indexVars, pc, listVars, classifiedLinks, lastCall, extVars>>

NextConc == \E p \in 1..MaxProcs : ProcLookup(p) \/ ProcStore(p)

SpecConc == InitConc /\ [][NextConc]_vars

\* two drafts that are pending and have the same key
PendingSameKey(a, b) ==
    /\ a.status = "pending" /\ b.status = "pending"
    /\ a.firm_id = b.firm_id
    /\ TruthyId(a.existing_role_id) = TruthyId(b.existing_role_id)
    /\ IF TruthyId(a.existing_role_id)
       THEN a.existing_role_id = b.existing_role_id
       ELSE a.url = b.url

\* C10: under every interleaving of concurrent saveRoleDiscoveryDraft calls,
\* with lookup and insert as separate store steps, the store never holds two
\* pending role drafts with the same key (firm and existingRoleId, or firm and
\* url when there is no existingRoleId).
C10_OnePendingPerKey ==
    \A i, j \in 1..Len(role_discovery_drafts) :
        i # j => ~PendingSameKey(role_discovery_drafts[i], role_discovery_drafts[j])

\* ------------------------------------------------ saveProgrammeDiscoveryDraft
MaxProgDrafts == 3

\* a row of programme_discovery_drafts
ProgrammeDraft(firm, suggested, normalized, ptype, srcUrl, status) ==
    [firm_id |-> firm, suggested_name |-> suggested, normalized_name |-> normalized,
     program_type |-> ptype, source_url_id |-> srcUrl, status |-> status]

\* the argument of saveProgrammeDiscoveryDraft
ProgSaveData(firmId, sourceUrlId, suggestedName, normalizedName, programType) ==
    [firmId |-> firmId, sourceUrlId |-> sourceUrlId, suggestedName |-> suggestedName,
     normalizedName |-> normalizedName, programType |-> programType]

\* .single(): the row when the query selects exactly one, else null (0)
Single(S) == IF Cardinality(S) = 1 THEN CHOOSE x \in S : TRUE ELSE 0

\* .eq('firm_id').eq('normalized_name').eq('status', 'pending')
PendingProgrammeDrafts(table, data) ==
    {i \in 1..Len(table) :
        /\ table[i].firm_id = data.firmId
        /\ table[i].normalized_name = data.normalizedName
        /\ table[i].status = "pending"}

\* the lookup also compares the programme type
FindPendingProgrammeDraft_ByType(table, data) ==
    Single({i \in PendingProgrammeDrafts(table, data) :
               table[i].program_type = data.programType})

FindPendingProgrammeDraft(table, data) ==
    Single(PendingProgrammeDrafts(table, data))

\* const draft: ProgrammeDiscoveryDraftInsert = {...}
NewProgrammeDraft(data) ==
    ProgrammeDraft(data.firmId, data.suggestedName, data.normalizedName,
                   data.programType,
                   IF data.sourceUrlId = "manual-test" THEN Null ELSE data.sourceUrlId,
                   "pending")

\* if (existingDraft) return existingDraft; else insert
InsertProgrammeDraft(table, existingDraft, data, insertError) ==
    IF existingDraft # 0 THEN [table |-> table, id |-> existingDraft]
    ELSE IF insertError THEN [table |-> table, id |-> 0]
    ELSE [table |-> Append(table, NewProgrammeDraft(data)), id |-> Len(table) + 1]

\* a call that no other store operation overlaps
saveProgrammeDiscoveryDraft(table, data, insertError) ==
    InsertProgrammeDraft(table, FindPendingProgrammeDraft(table, data), data, insertError)

\* --------------------------------------------------------- approveProgrammeDraft
\* a row of programs
Programme(firm, name, normalized, ptype) ==
    [firm_id |-> firm, name |-> name, normalized_name |-> normalized,
     program_type |-> ptype]

\* programs .eq('firm_id').eq('normalized_name').single()
FindProgramme(progs, draft) ==
    Single({i \in 1..Len(progs) :
               /\ progs[i].firm_id = draft.firm_id
               /\ progs[i].normalized_name = draft.normalized_name})

\* .update({ status: 'approved' }).eq('id', draftId); its error is not read
MarkApproved(drafts, draftId, updateError) ==
    IF updateError THEN drafts
    ELSE [drafts EXCEPT ![draftId].status = "approved"]

\* the most programmes of the store
MaxProgrammes == 4

\* the result is the two tables afterwards and the value returned; selectError
\* is the answer to the selects on programs, whose error is not read: the data
\* are null then, as when no programme matches
approveProgrammeDraft(drafts, progs, draftId, selectError, createError, updateError) ==
    IF draftId \notin 1..Len(drafts)
    THEN [drafts |-> drafts, programs |-> progs, success |-> FALSE, programmeId |-> 0]
    ELSE LET draft == drafts[draftId]
             existing == IF selectError THEN 0 ELSE FindProgramme(progs, draft)
         IN IF draft.status = "approved" /\ existing # 0
            THEN [drafts |-> drafts, programs |-> progs, success |-> TRUE,
                  programmeId |-> existing]
            ELSE IF existing # 0
            THEN [drafts |-> MarkApproved(drafts, draftId, updateError),
                  programs |-> progs, success |-> TRUE, programmeId |-> existing]
            ELSE IF createError
            THEN [drafts |-> drafts, programs |-> progs, success |-> FALSE,
                  programmeId |-> 0]
            ELSE [drafts |-> MarkApproved(drafts, draftId, updateError),
                  programs |-> Append(progs,
                      Programme(draft.firm_id, draft.suggested_name,
                                draft.normalized_name,
                                IF draft.program_type = "off_cycle_internship"
                                THEN "off_cycle" ELSE draft.program_type)),
                  success |-> TRUE, programmeId |-> Len(progs) + 1]

\* dismissDiscoveries, the programme part:
\* .update({ status: 'dismissed' }).in('id', programmeDraftIds)
dismissProgrammeDrafts(table, programmeDraftIds, updateError) ==
    IF programmeDraftIds = {} \/ updateError THEN table
    ELSE [i \in 1..Len(table) |->
            IF i \in programmeDraftIds
            THEN [table[i] EXCEPT !.status = "dismissed"]
            ELSE table[i]]

\* ------------------------------------------- the programme drafts, call by call
ProgSaveCalls ==
    {ProgSaveData("f1", "u1", "Grad", "grad", "summer_internship"),
     ProgSaveData("f1", "manual-test", "Grad", "grad", "off_cycle_internship"),
     ProgSaveData("f2", "u1", "Grad", "grad", "summer_internship")}

ProgInitProgrammes ==
    {<<>>, <<Programme("f2", "Grad", "grad", "summer_internship")>>}

InitProg ==
    /\ program_roles = {}
    /\ role_discovery_drafts = <<>>
    /\ existingRoles = NoIndex
    /\ dismissedDrafts = NoIndex
    /\ pc = "prog"
    /\ classifiedLinks = <<>>
    /\ IdleList
    /\ IdleStore
    /\ programme_discovery_drafts = <<>>
    /\ programs \in ProgInitProgrammes
    /\ progCall = NoProgCall
    /\ tasks = <<>>
    /\ IdleFlow
    /\ job = NoJob
    /\ IdleFn
    /\ IdleMetrics

\* one call of saveProgrammeDiscoveryDraft, from lookup to return
SaveProgrammeDraftCall ==
    /\ pc = "prog"
    /\ \E data \in ProgSaveCalls, insertError \in BOOLEAN :
       \E out \in {saveProgrammeDiscoveryDraft(programme_discovery_drafts, data, insertError)} :
          /\ Len(out.table) <= MaxProgDrafts
          /\ programme_discovery_drafts' = out.table
          /\ progCall' = [op |-> "save", data |-> data,
                          found |-> FindPendingProgrammeDraft(programme_discovery_drafts, data),
                          before |-> programme_discovery_drafts, ret |-> out.id]
    /\ UNCHANGED <<tableVars, indexVars, pc, listVars, classifiedLinks, storeVars,
                   programs, tasks,
                   flowVars, job, fnVars, metricVars>>

\* an admin approves a programme draft; the selects on programs are answered
ApproveProgrammeDraftCall ==
    /\ pc = "prog"
    /\ \E draftId \in 1..Len(programme_discovery_drafts),
          createError \in BOOLEAN, updateError \in BOOLEAN :
       \E out \in {approveProgrammeDraft(programme_discovery_drafts, programs,
                                         draftId, FALSE, createError, updateError)} :
          /\ programme_discovery_drafts' = out.drafts
          /\ programs' = out.programs
          /\ progCall' = [op |-> "approve"]
    /\ UNCHANGED <<tableVars, indexVars, pc, listVars, classifiedLinks, storeVars, tasks,
                   flowVars, job, fnVars, metricVars>>

\* an admin dismisses programme drafts: dismissDiscoveries(programmeDraftIds, [])
DismissProgrammeDraftsCall ==
    /\ pc = "prog"
    /\ \E ids \in SUBSET (1..Len(programme_discovery_drafts)), updateError \in BOOLEAN :
        /\ ids # {}
        /\ programme_discovery_drafts' =
               dismissProgrammeDrafts(programme_discovery_drafts, ids, updateError)
        /\ progCall' = [op |-> "dismiss"]
    /\ UNCHANGED <<tableVars, indexVars, pc, listVars, classifiedLinks, storeVars,
                   programs, tasks,
                   flowVars, job, fnVars, metricVars>>

NextProg ==
    SaveProgrammeDraftCall \/ ApproveProgrammeDraftCall \/ DismissProgrammeDraftsCall

SpecProg == InitProg /\ [][NextProg]_vars

\* two programme drafts that are pending for the same (firm, normalized name)
PendingSameProgramme(a, b) ==
    /\ a.status = "pending" /\ b.status = "pending"
    /\ a.firm_id = b.firm_id
    /\ a.normalized_name = b.normalized_name

W_programme == <<"p","r","o","g","r","a","m","m","e">>
W_program == <<"p","r","o","g","r","a","m">>
\* london|new york|nyc|birmingham|manchester|edinburgh|dublin
LocationWords ==
    {<<"l","o","n","d","o","n">>, <<"n","e","w"," ","y","o","r","k">>,
     <<"n","y","c">>, <<"b","i","r","m","i","n","g","h","a","m">>,
     <<"m","a","n","c","h","e","s","t","e","r">>,
     <<"e","d","i","n","b","u","r","g","h">>, <<"d","u","b","l","i","n">>}

\* a match of /\bw\b/ starts at position i of s (w begins and ends with a
\* word character)
WordAt(s, i, w) ==
    /\ i + Len(w) - 1 <= Len(s)
    /\ SubSeq(s, i, i + Len(w) - 1) = w
    /\ (i = 1 \/ s[i - 1] \notin WordChars)
    /\ (i + Len(w) - 1 = Len(s) \/ s[i + Len(w)] \notin WordChars)

\* s.replace(/\b(w1|w2|...)\b/g, repl) for the words of the set ws
RECURSIVE ReplaceWords(_, _, _, _)
ReplaceWords(s, i, ws, repl) ==
    IF i > Len(s) THEN <<>>
    ELSE LET hits == {w \in ws : WordAt(s, i, w)}
         IN IF hits # {}
            THEN LET w == CHOOSE x \in hits : TRUE
                 IN repl \o ReplaceWords(s, i + Len(w), ws, repl)
            ELSE <<s[i]>> \o ReplaceWords(s, i + 1, ws, repl)

normalizeProgrammeName(name) ==
    LET lower == ToLowerCase(name)
        spelled == ReplaceWords(lower, 1, {W_programme}, W_program)
        noYears == RemoveYears(spelled, 1)
        noPlace == ReplaceWords(noYears, 1, LocationWords, <<>>)
        noPunct == ReplacePunctuation(noPlace)
    IN Trim(CollapseSpaces(noPunct, 1))

\* programme names of the model
N_GP == <<"2","0","2","6"," ","G","r","a","d"," ","P","r","o","g","r","a","m","m","e">>
N_G == <<"G","r","a","d","-","P","r","o","g","r","a","m"," ","N","Y","C">>
N_S == <<"S","p","r","i","n","g">>

\* ------------------------------------------------------------- suggestProgramme
\* truthiness of a nullable string
TruthyStr(s) == s # NullStr /\ s # <<>>

\* String.prototype.includes
Includes(s, sub) ==
    \E i \in 1..(Len(s) - Len(sub) + 1) : SubSeq(s, i, i + Len(sub) - 1) = sub

\* String(new Date().getFullYear()) at the time of the run
CurrentYear == <<"2","0","2","6">>
W_Programme == <<"P","r","o","g","r","a","m","m","e">>

\* an object that passed ProgrammeSuggestionSchema
SuggestionObject(isNew, suggested, normalized, ptype, matchedId, matchedName) ==
    [is_new |-> isNew, suggested_name |-> suggested, normalized_name |-> normalized,
     program_type |-> ptype, matched_program_id |-> matchedId,
     matched_program_name |-> matchedName]

\* the coercion is left out: the object is returned as the boundary gave it
CoerceSuggestion_Off(object, scrapedProgramType) == object

\* if (!correctedObject.is_new && !correctedObject.matched_program_id) {...}
CoerceSuggestion(object, scrapedProgramType) ==
    IF ~object.is_new /\ ~TruthyId(object.matched_program_id)
    THEN LET matchedName == IF TruthyStr(object.matched_program_name)
                            THEN object.matched_program_name ELSE W_Programme
         IN SuggestionObject(TRUE,
                IF Includes(matchedName, CurrentYear) THEN matchedName
                ELSE CurrentYear \o <<" ">> \o matchedName,
                normalizeProgrammeName(matchedName),
                IF TruthyId(scrapedProgramType) THEN scrapedProgramType
                ELSE "summer_internship",
                Null, NullStr)
    ELSE object

\* the value suggestProgramme returns for the object the boundary produced
suggestProgramme(object, scrapedProgramType) ==
    LET regenerated ==
            IF object.is_new /\ TruthyStr(object.suggested_name)
            THEN [object EXCEPT !.normalized_name =
                                    normalizeProgrammeName(object.suggested_name)]
            ELSE object
    IN CoerceSuggestion(regenerated, scrapedProgramType)

\* ----------------------------------------------------------------- saveDiscovery
\* the argument of saveDiscovery
DiscoveryData(firmId, sourceUrlId, ver, suggestion, url, updateType, existingRoleId) ==
    [firmId |-> firmId, sourceUrlId |-> sourceUrlId, ver |-> ver,
     programmeSuggestion |-> suggestion, url |-> url, updateType |-> updateType,
     existingRoleId |-> existingRoleId]

\* if (data.programmeSuggestion.is_new && data.programmeSuggestion.suggested_name)
NeedsProgrammeDraft(data) ==
    data.programmeSuggestion.is_new /\ TruthyStr(data.programmeSuggestion.suggested_name)

\* the argument saveDiscovery passes to saveProgrammeDiscoveryDraft
ProgSaveDataOf(data) ==
    LET s == data.programmeSuggestion
    IN ProgSaveData(data.firmId, data.sourceUrlId, s.suggested_name,
                    IF TruthyStr(s.normalized_name) THEN s.normalized_name
                    ELSE ToLowerCase(s.suggested_name),
                    IF TruthyId(s.program_type) THEN s.program_type
                    ELSE "summer_internship")

\* the argument saveDiscovery passes to saveRoleDiscoveryDraft
RoleSaveDataOf(data, programmeDraftId) ==
    SaveData(data.firmId, data.url, data.existingRoleId, data.updateType,
             data.ver, programmeDraftId)

\* the SKIP guard is left out
SkipsSaving_Never(data) == FALSE

\* if (data.updateType === 'SKIP') return null
SkipsSaving(data) == data.updateType = "SKIP"

\* the id of a programme draft as saveDiscovery hands it on: programmeDraftId
\* stays undefined when no programme draft was needed (id -1), and an
\* undefined value is stored as null
ProgrammeDraftRef(id) == IF id < 1 THEN Null ELSE ToString(id)

\* Step 1 of saveDiscovery on what the lookup returned
SaveProgrammeStep(progTable, data, existingDraft, progInsertError) ==
    IF NeedsProgrammeDraft(data)
    THEN InsertProgrammeDraft(progTable, existingDraft, ProgSaveDataOf(data),
                              progInsertError)
    ELSE [table |-> progTable, id |-> -1]

\* a call that no other store operation overlaps; the result is the two draft
\* tables afterwards and the ids returned (ok = FALSE stands for null)
saveDiscovery(progTable, roleTable, data, progInsertError, roleInsertError) ==
    IF SkipsSaving(data)
    THEN [programmes |-> progTable, roles |-> roleTable, ok |-> FALSE,
          programmeDraftId |-> Null, roleDraftId |-> 0]
    ELSE LET prog == SaveProgrammeStep(progTable, data,
                         FindPendingProgrammeDraft(progTable, ProgSaveDataOf(data)),
                         progInsertError)
         IN IF prog.id = 0
            THEN [programmes |-> prog.table, roles |-> roleTable, ok |-> FALSE,
                  programmeDraftId |-> Null, roleDraftId |-> 0]
            ELSE LET role == saveRoleDiscoveryDraft(roleTable,
                                 RoleSaveDataOf(data, ProgrammeDraftRef(prog.id)),
                                 roleInsertError)
                 IN [programmes |-> prog.table, roles |-> role.table,
                     ok |-> role.id # 0,
                     programmeDraftId |-> IF role.id # 0
                                          THEN ProgrammeDraftRef(prog.id) ELSE Null,
                     roleDraftId |-> role.id]

\* ------------------------------------------------ the detail tasks of one run
MaxTasks == 2

\* the links the run dispatched, one per task; their normalized URLs differ
TaskUrls == <<U_A, U_B, U_BAD>>
RunScrapeUrl == "u1"

\* what the suggestion boundary can return for a detail page
DetailObjects ==
    {SuggestionObject(TRUE, N_GP, NullStr, "graduate", Null, NullStr),
     SuggestionObject(TRUE, N_G, NullStr, "graduate", Null, NullStr),
     SuggestionObject(FALSE, NullStr, NullStr, Null, "p1", NullStr)}

NoSuggestion == SuggestionObject(FALSE, NullStr, NullStr, Null, Null, NullStr)

QueuedTask(url) ==
    [pc |-> "queued", url |-> url, action |-> "NEW_ROLE", existingRoleId |-> Null,
     suggestion |-> NoSuggestion, existingDraft |-> 0, progId |-> -1,
     saved |-> FALSE, programmeDraftId |-> Null, roleDraftId |-> 0]

\* the argument of the task's saveDiscovery call
TaskData(task) ==
    DiscoveryData(RunFirm, RunScrapeUrl, "s1", task.suggestion, task.url,
                  task.action, task.existingRoleId)

\* the task dispatched for a collected link
QueuedTaskOf(link) ==
    [QueuedTask(link.url) EXCEPT !.action = link.action,
                                 !.existingRoleId = link.existingRoleId]

InitDetail ==
    /\ program_roles = {}
    /\ role_discovery_drafts = <<>>
    /\ existingRoles = NoIndex
    /\ dismissedDrafts = NoIndex
    /\ pc = "detail"
    /\ classifiedLinks = <<>>
    /\ IdleList
    /\ IdleStore
    /\ IdleProg
    /\ tasks = [t \in 1..MaxTasks |-> QueuedTask(TaskUrls[t])]
    /\ IdleFlow
    /\ job = NoJob
    /\ IdleFn
    /\ IdleMetrics

\* the pending programme drafts of the run's scrape URL that the dedup check
\* takes for the suggestion
DedupMatches(table, suggestion) ==
    {i \in 1..Len(table) :
        /\ table[i].source_url_id = RunScrapeUrl
        /\ table[i].status = "pending"
        /\ normalizeProgrammeName(table[i].suggested_name)
             = normalizeProgrammeName(suggestion.suggested_name)
        /\ table[i].program_type = suggestion.program_type}

\* runDetailPhase: the page is extracted and suggestProgramme returns
TaskSuggest(t) ==
    /\ pc = "detail"
    /\ tasks[t].pc = "queued"
    /\ \E object \in DetailObjects :
          tasks' = [tasks EXCEPT ![t].pc = "suggested",
                                 ![t].suggestion = suggestProgramme(object, Null)]
    /\ UNCHANGED <<tableVars, indexVars, pc, listVars, classifiedLinks, storeVars,
                   progVars,
                   flowVars, job, fnVars, metricVars>>

\* runDetailPhase: the deduplication check for new programmes; the query may
\* fail or return nothing, and then the suggestion stays as it is
TaskDedup(t) ==
    /\ pc = "detail"
    /\ tasks[t].pc = "suggested"
    /\ \E queryFails \in BOOLEAN :
       \E matches \in {IF tasks[t].suggestion.is_new
                          /\ TruthyStr(tasks[t].suggestion.suggested_name)
                          /\ ~queryFails
                       THEN DedupMatches(programme_discovery_drafts, tasks[t].suggestion)
                       ELSE {}} :
          IF matches = {}
          THEN tasks' = [tasks EXCEPT ![t].pc = "deduped"]
          ELSE \E m \in matches :
                  tasks' = [tasks EXCEPT
                      ![t].pc = "deduped",
                      ![t].suggestion.suggested_name =
                          programme_discovery_drafts[m].suggested_name,
                      ![t].suggestion.normalized_name =
                          programme_discovery_drafts[m].normalized_name]
    /\ UNCHANGED <<tableVars, indexVars, pc, listVars, classifiedLinks, storeVars,
                   progVars,
                   flowVars, job, fnVars, metricVars>>

\* saveDiscovery up to the answer of the programme-draft lookup
TaskProgrammeLookup(t) ==
    /\ pc = "detail"
    /\ tasks[t].pc = "deduped"
    /\ tasks' = IF SkipsSaving(TaskData(tasks[t]))
                THEN [tasks EXCEPT ![t].pc = "done"]
                ELSE [tasks EXCEPT
                        ![t].pc = "looked",
                        ![t].existingDraft =
                            IF NeedsProgrammeDraft(TaskData(tasks[t]))
                            THEN FindPendingProgrammeDraft(programme_discovery_drafts,
                                     ProgSaveDataOf(TaskData(tasks[t])))
                            ELSE 0]
    /\ UNCHANGED <<tableVars, indexVars, pc, listVars, classifiedLinks, storeVars,
                   progVars,
                   flowVars, job, fnVars, metricVars>>

\* saveDiscovery: the pending programme draft is reused or the insert runs
TaskProgrammeInsert(t) ==
    /\ pc = "detail"
    /\ tasks[t].pc = "looked"
    /\ \E progInsertError \in BOOLEAN :
       \E prog \in {SaveProgrammeStep(programme_discovery_drafts, TaskData(tasks[t]),
                                      tasks[t].existingDraft, progInsertError)} :
          /\ programme_discovery_drafts' = prog.table
          /\ tasks' = [tasks EXCEPT ![t].pc = IF prog.id = 0 THEN "done"
                                              ELSE "programme_saved",
                                    ![t].progId = prog.id]
    /\ UNCHANGED <<tableVars, indexVars, pc, listVars, classifiedLinks, storeVars,
                   programs, progCall,
                   flowVars, job, fnVars, metricVars>>

\* saveDiscovery: saveRoleDiscoveryDraft, and the task returns
TaskRoleSave(t) ==
    /\ pc = "detail"
    /\ tasks[t].pc = "programme_saved"
    /\ \E roleInsertError \in BOOLEAN :
       \E role \in {saveRoleDiscoveryDraft(role_discovery_drafts,
                        RoleSaveDataOf(TaskData(tasks[t]),
                                       ProgrammeDraftRef(tasks[t].progId)),
                        roleInsertError)} :
          /\ role_discovery_drafts' = role.table
          /\ tasks' = [tasks EXCEPT
                         ![t].pc = "done",
                         ![t].saved = (role.id # 0),
                         ![t].roleDraftId = role.id,
                         ![t].programmeDraftId =
                             IF role.id # 0 THEN ProgrammeDraftRef(tasks[t].progId)
                             ELSE Null]
    /\ UNCHANGED <<program_roles, indexVars, pc, listVars, classifiedLinks, storeVars,
                   progVars,
                   flowVars, job, fnVars, metricVars>>

NextDetail ==
    \E t \in DOMAIN tasks :
        \/ TaskSuggest(t)
        \/ TaskDedup(t)
        \/ TaskProgrammeLookup(t)
        \/ TaskProgrammeInsert(t)
        \/ TaskRoleSave(t)

SpecDetail == InitDetail /\ [][NextDetail]_vars

\* the pending programme drafts of the firm with the given normalized name
PendingProgrammesNamed(name) ==
    {i \in 1..Len(programme_discovery_drafts) :
        /\ programme_discovery_drafts[i].firm_id = RunFirm
        /\ programme_discovery_drafts[i].normalized_name = name
        /\ programme_discovery_drafts[i].status = "pending"}

\* C12: when two detail tasks of one run, whose suggestions are new programmes
\* with the same normalized name and the same programme type, have both saved
\* their discovery, exactly one pending programme draft exists for the firm
\* and that normalized name and both role drafts link to it.
C12_OneProgrammeDraftPerRun ==
    \A t1, t2 \in 1..MaxTasks :
        (/\ t1 # t2
         /\ tasks[t1].pc = "done" /\ tasks[t2].pc = "done"
         /\ tasks[t1].saved /\ tasks[t2].saved
         /\ tasks[t1].suggestion.is_new /\ tasks[t2].suggestion.is_new
         /\ tasks[t1].suggestion.normalized_name = tasks[t2].suggestion.normalized_name
         /\ tasks[t1].suggestion.program_type = tasks[t2].suggestion.program_type)
        => LET P == PendingProgrammesNamed(tasks[t1].suggestion.normalized_name)
           IN /\ Cardinality(P) = 1
              /\ \A t \in {t1, t2}, i \in P :
                    role_discovery_drafts[tasks[t].roleDraftId]
                        .programme_discovery_draft_id = ToString(i)

\* ------------------------------------- discoveryFlowTask: list, fan out, save
\* the roles of the firm before the run: r1, open
FlowRoleTables ==
    {{WithIsOpen(sh, "true")} : sh \in {x \in RoleRowShapes : x.id = "r1"}}

\* the values scraper_config.maxRoles takes in the model
MaxRolesValues == {NoMaxRoles, 0, 1}

InitFlow ==
    /\ program_roles \in FlowRoleTables
    /\ role_discovery_drafts = <<>>
    /\ existingRoles = NoIndex
    /\ dismissedDrafts = NoIndex
    /\ pc = "start"
    /\ classifiedLinks = <<>>
    /\ maxPages = MaxPagesCfg
    /\ pagesProcessed = 0
    /\ rolesFound = 0
    /\ rolesSkipped = 0
    /\ seenUrls = {}
    /\ collectedLinks = <<>>
    /\ IdleStore
    /\ IdleProg
    /\ tasks = <<>>
    /\ maxRoles \in MaxRolesValues
    /\ saveCall = NoSaveCall
    /\ job = NoJob
    /\ IdleFn
    /\ IdleMetrics

\* maxRoles ? collectedLinks.slice(0, maxRoles) : collectedLinks
LinksToExtract(links, limit) ==
    IF limit > 0 THEN SubSeq(links, 1, IF limit < Len(links) THEN limit ELSE Len(links))
    ELSE links

\* discoveryFlowTask after runListPhase returned: nothing collected ends the
\* run, else one detail task per link to extract is triggered
FlowDispatch ==
    /\ pc = "listed"
    /\ IF Len(collectedLinks) = 0
       THEN /\ pc' = "flow_done"
            /\ tasks' = <<>>
       ELSE /\ pc' = "detail"
            /\ tasks' = [t \in 1..Len(LinksToExtract(collectedLinks, maxRoles)) |->
                            QueuedTaskOf(LinksToExtract(collectedLinks, maxRoles)[t])]
    /\ UNCHANGED <<tableVars, indexVars, listVars, classifiedLinks, storeVars,
                   progVars, flowVars, job, fnVars, metricVars>>

\* the suggestion after the deduplication check of runDetailPhase
DedupedSuggestions(table, suggestion, queryFails) ==
    LET matches == IF suggestion.is_new /\ TruthyStr(suggestion.suggested_name)
                      /\ ~queryFails
                   THEN DedupMatches(table, suggestion) ELSE {}
    IN IF matches = {} THEN {suggestion}
       ELSE {[suggestion EXCEPT !.suggested_name = table[m].suggested_name,
                                !.normalized_name = table[m].normalized_name] :
                m \in matches}

\* runDetailPhase of task t from start to return, no other task overlapping
TaskRun(t) ==
    /\ pc = "detail"
    /\ tasks[t].pc = "queued"
    /\ \E object \in DetailObjects, queryFails \in BOOLEAN,
          progInsertError \in BOOLEAN, roleInsertError \in BOOLEAN :
       \E suggestion \in DedupedSuggestions(programme_discovery_drafts,
                              suggestProgramme(object, Null), queryFails) :
       \E out \in {saveDiscovery(programme_discovery_drafts, role_discovery_drafts,
                        TaskData([tasks[t] EXCEPT !.suggestion = suggestion]),
                        progInsertError, roleInsertError)} :
          /\ programme_discovery_drafts' = out.programmes
          /\ role_discovery_drafts' = out.roles
          /\ tasks' = [tasks EXCEPT ![t].pc = "done",
                                    ![t].suggestion = suggestion,
                                    ![t].saved = out.ok,
                                    ![t].programmeDraftId = out.programmeDraftId,
                                    ![t].roleDraftId = out.roleDraftId]
    /\ UNCHANGED <<program_roles, indexVars, pc, listVars, classifiedLinks, storeVars,
                   programs, progCall, flowVars, job, fnVars, metricVars>>

\* the arguments of the direct saveDiscovery calls
DirectSaves ==
    {DiscoveryData(RunFirm, RunScrapeUrl, "s2", suggestProgramme(o, Null), U_A, a, Null) :
        o \in DetailObjects, a \in {"SKIP", "NEW_ROLE"}}

\* one call of saveDiscovery from entry to return, once the tasks are done
SaveDiscoveryCall ==
    /\ pc \in {"detail", "flow_done"}
    /\ saveCall = NoSaveCall
    /\ \A t \in DOMAIN tasks : tasks[t].pc = "done"
    /\ \E data \in DirectSaves, progInsertError \in BOOLEAN, roleInsertError \in BOOLEAN :
       \E out \in {saveDiscovery(programme_discovery_drafts, role_discovery_drafts,
                                 data, progInsertError, roleInsertError)} :
          /\ programme_discovery_drafts' = out.programmes
          /\ role_discovery_drafts' = out.roles
          /\ saveCall' = [op |-> "saveDiscovery", data |-> data, ok |-> out.ok,
                          programmesBefore |-> programme_discovery_drafts,
                          rolesBefore |-> role_discovery_drafts]
    /\ UNCHANGED <<program_roles, indexVars, pc, listVars, classifiedLinks, storeVars,
                   programs, progCall, tasks, maxRoles, job, fnVars, metricVars>>

NextFlow ==
    \/ NextList
    \/ FlowDispatch
    \/ \E t \in DOMAIN tasks : TaskRun(t)
    \/ SaveDiscoveryCall

SpecFlow == InitFlow /\ [][NextFlow]_vars

\* C13: no SKIP is persisted: a saveDiscovery call with updateType SKIP
\* returns null and leaves both draft tables as they were, no stored role
\* draft has update type SKIP, no collected link has action SKIP and no detail
\* task is dispatched for a SKIP link.
C13_SkipNeverPersisted ==
    /\ (saveCall.op = "saveDiscovery" /\ saveCall.data.updateType = "SKIP")
       => /\ ~saveCall.ok
          /\ programme_discovery_drafts = saveCall.programmesBefore
          /\ role_discovery_drafts = saveCall.rolesBefore
    /\ \A i \in 1..Len(role_discovery_drafts) :
          role_discovery_drafts[i].update_type # "SKIP"
    /\ \A i \in 1..Len(collectedLinks) : collectedLinks[i].action # "SKIP"
    /\ \A t \in DOMAIN tasks : tasks[t].action # "SKIP"

\* a run that skipped a link and dispatched another, followed by a SKIP call
\* for a new programme while no programme draft is pending
C13_Witness ==
    /\ saveCall.op = "saveDiscovery" /\ saveCall.data.updateType = "SKIP"
    /\ NeedsProgrammeDraft(saveCall.data)
    /\ saveCall.programmesBefore = <<>>
    /\ rolesSkipped > 0
    /\ tasks # <<>>

\* ------------------------------------------- suggestProgramme as a function
\* objects the boundary (generateObject with ProgrammeSuggestionSchema) can give
SuggestNames == {NullStr, <<>>, N_GP, N_S}
SuggestTypes == {Null, "graduate", "summer_internship"}
SuggestIds == {Null, "p1"}

BoundaryObjects ==
    {SuggestionObject(isNew, suggested, NullStr, ptype, matchedId, matchedName) :
        isNew \in BOOLEAN, suggested \in {NullStr, N_G}, ptype \in SuggestTypes,
        matchedId \in SuggestIds, matchedName \in SuggestNames}

\* inputs.scrapedRole.program_type
ScrapedProgramTypes == {Null, "graduate"}

SuggestInputs ==
    {[object |-> o, scrapedProgramType |-> t, throws |-> FALSE] :
        o \in BoundaryObjects, t \in ScrapedProgramTypes}
    \cup {[object |-> NoSuggestion, scrapedProgramType |-> Null, throws |-> TRUE]}

InitSuggest ==
    /\ pc = "suggest"
    /\ fnIn \in {<<i>> : i \in SuggestInputs}
    /\ fnOut = <<>>
    /\ program_roles = {}
    /\ role_discovery_drafts = <<>>
    /\ existingRoles = NoIndex
    /\ dismissedDrafts = NoIndex
    /\ classifiedLinks = <<>>
    /\ IdleList
    /\ IdleStore
    /\ IdleProg
    /\ tasks = <<>>
    /\ IdleFlow
    /\ job = NoJob
    /\ IdleMetrics

\* the boundary answered: the corrected object is returned
SuggestReturns ==
    /\ pc = "suggest"
    /\ ~fnIn[1].throws
    /\ fnOut' = <<[threw |-> FALSE,
                   value |-> suggestProgramme(fnIn[1].object,
                                              fnIn[1].scrapedProgramType)]>>
    /\ pc' = "suggest_done"
    /\ UNCHANGED <<tableVars, indexVars, listVars, classifiedLinks, storeVars,
                   progVars, tasks, flowVars, job, fnIn, metricVars>>

\* the boundary failed after its retries: the catch block re-throws
SuggestThrows ==
    /\ pc = "suggest"
    /\ fnIn[1].throws
    /\ fnOut' = <<[threw |-> TRUE, value |-> NoSuggestion]>>
    /\ pc' = "suggest_done"
    /\ UNCHANGED <<tableVars, indexVars, listVars, classifiedLinks, storeVars,
                   progVars, tasks, flowVars, job, fnIn, metricVars>>

NextSuggest == SuggestReturns \/ SuggestThrows

SpecSuggest == InitSuggest /\ [][NextSuggest]_vars

\* C14: every suggestion suggestProgramme returns has a non-null
\* matched_program_id when is_new is false; a boundary object with
\* is_new = false and no matched_program_id is returned, not thrown, as a new
\* programme: is_new = true, matched_program_id and matched_program_name null,
\* suggested_name, normalized_name and program_type non-null.
C14_MatchNeedsProgrammeId ==
    (pc = "suggest_done" /\ ~fnIn[1].throws) =>
        /\ ~fnOut[1].threw
        /\ ~fnOut[1].value.is_new => fnOut[1].value.matched_program_id # Null
        /\ (~fnIn[1].object.is_new /\ fnIn[1].object.matched_program_id = Null)
           => /\ fnOut[1].value.is_new
              /\ fnOut[1].value.matched_program_id = Null
              /\ fnOut[1].value.matched_program_name = NullStr
              /\ fnOut[1].value.suggested_name # NullStr
              /\ fnOut[1].value.normalized_name # NullStr
              /\ fnOut[1].value.program_type # Null

C14_Witness ==
    /\ pc = "suggest_done"
    /\ ~fnIn[1].object.is_new
    /\ fnIn[1].object.matched_program_id = Null
    /\ fnIn[1].object.matched_program_name = N_GP
    /\ fnIn[1].object.program_type = Null
    /\ fnIn[1].scrapedProgramType = Null
    /\ fnOut[1].value.suggested_name = N_GP
    /\ fnOut[1].value.program_type = "summer_internship"

\* ------------------------------------------------------- runExplorationJob
\* the most links the classifier returns for one page of an exploration run
MaxExploreLinks == 2

\* the job links of the listing: one at the URL of role r1, two at another
\* URL, the first of them under the canonical name of r1
ExploreJobLinks ==
    { [url |-> U_A, title |-> T_C], [url |-> U_B, title |-> T_A2],
      [url |-> U_B, title |-> T_C] }
ExplorePages == UNION {[1..n -> ExploreJobLinks] : n \in 0..MaxExploreLinks}

\* classifiedLinks.filter(l => l.action === a)
RECURSIVE LinksWithAction(_, _)
LinksWithAction(links, a) ==
    IF links = <<>> THEN <<>>
    ELSE IF Head(links).action = a
    THEN <<Head(links)>> \o LinksWithAction(Tail(links), a)
    ELSE LinksWithAction(Tail(links), a)

\* const toCollect = [...newRoles, ...urlChanges, ...reopenings];
ToCollect(links) ==
    LinksWithAction(links, "NEW_ROLE") \o LinksWithAction(links, "URL_CHANGED")
        \o LinksWithAction(links, "REOPENING")

\* rolesFound++ for every link in the map callback, then
\* rolesFound += classifiedLinks.length
FoundOnPage(links) == Len(links) + Len(links)

\* the counters of the run that the list variables do not hold
StartedJob ==
    [phase |-> "run", listPhaseComplete |-> FALSE, allRolesInScan |-> 0,
     rolesNew |-> 0, rolesUrlChanged |-> 0, rolesReopened |-> 0,
     success |-> FALSE,
     metrics |-> [roles_found |-> 0, roles_skipped |-> 0, roles_new |-> 0,
                  roles_url_changed |-> 0, roles_reopened |-> 0]]

InitExplore ==
    /\ program_roles \in FlowRoleTables
    /\ role_discovery_drafts = <<>>
    /\ existingRoles = NoIndex
    /\ dismissedDrafts = NoIndex
    /\ pc = "start"
    /\ classifiedLinks = <<>>
    /\ maxPages \in 0..MaxPagesCfg
    /\ pagesProcessed = 0
    /\ rolesFound = 0
    /\ rolesSkipped = 0
    /\ seenUrls = {}
    /\ collectedLinks = <<>>
    /\ IdleStore
    /\ IdleProg
    /\ tasks = <<>>
    /\ maxRoles \in MaxRolesValues
    /\ saveCall = NoSaveCall
    /\ job = StartedJob
    /\ IdleFn
    /\ IdleMetrics

\* one iteration of the loop of the list handler on a page without any link:
\* the handler returns
ExplorePageNoLinks ==
    /\ pc = "loaded"
    /\ job.phase = "run"
    /\ LoopContinues(pagesProcessed, maxPages)
    /\ pagesProcessed' = pagesProcessed + 1
    /\ classifiedLinks' = <<>>
    /\ pc' = "crawl"
    /\ UNCHANGED <<tableVars, indexVars, maxPages, rolesFound, rolesSkipped,
                   seenUrls, collectedLinks, storeVars, extVars>>

\* one iteration of the loop on a page with links, of which the classifier
\* returns jobLinks; clickPaginationNext returns hasMorePages
ExplorePage ==
    /\ pc = "loaded"
    /\ job.phase = "run"
    /\ LoopContinues(pagesProcessed, maxPages)
    /\ \E jobLinks \in ExplorePages :
          /\ classifiedLinks' = ClassifyLinks(jobLinks)
          /\ job' = [job EXCEPT !.allRolesInScan = @ + Len(jobLinks)]
    /\ pagesProcessed' = pagesProcessed + 1
    /\ rolesFound' = rolesFound + FoundOnPage(classifiedLinks')
    /\ rolesSkipped' = rolesSkipped + SkipCount(classifiedLinks')
    /\ \E acc \in {CollectLinks(ToCollect(classifiedLinks'),
                                [seen |-> seenUrls, collected |-> collectedLinks])} :
          /\ seenUrls' = acc.seen
          /\ collectedLinks' = acc.collected
    /\ \E hasMorePages \in BOOLEAN :
          pc' = IF hasMorePages THEN "loaded" ELSE "list_end"
    /\ UNCHANGED <<tableVars, indexVars, maxPages, storeVars, progVars, tasks,
                   flowVars, fnVars, metricVars>>

\* the loop condition pagesProcessed < maxPages fails
ExploreLoopExit ==
    /\ pc = "loaded"
    /\ job.phase = "run"
    /\ ~LoopContinues(pagesProcessed, maxPages)
    /\ pc' = "list_end"
    /\ UNCHANGED <<tableVars, indexVars, listVars, classifiedLinks, storeVars, extVars>>

\* maxRoles !== null && collectedLinks.length > maxRoles
\*     ? collectedLinks.slice(0, maxRoles) : collectedLinks
ExploreLinksToExtract(links, limit) ==
    IF limit # NoMaxRoles /\ Len(links) > limit THEN SubSeq(links, 1, limit)
    ELSE links

\* checkAndStartDetailPhase, called after the loop of the list handler
CheckAndStartDetailPhase ==
    /\ pc = "list_end"
    /\ ~job.listPhaseComplete
    /\ pc' = "crawl"
    /\ IF Len(collectedLinks) > 0
       THEN \E linksToExtract \in {ExploreLinksToExtract(collectedLinks, maxRoles)} :
               /\ job' = [job EXCEPT
                      !.listPhaseComplete = TRUE,
                      !.rolesNew = Len(LinksWithAction(linksToExtract, "NEW_ROLE")),
                      !.rolesUrlChanged = Len(LinksWithAction(linksToExtract, "URL_CHANGED")),
                      !.rolesReopened = Len(LinksWithAction(linksToExtract, "REOPENING"))]
               /\ rolesSkipped' = rolesSkipped + (Len(collectedLinks) - Len(linksToExtract))
               /\ tasks' = [t \in 1..Len(linksToExtract) |-> QueuedTaskOf(linksToExtract[t])]
       ELSE /\ job' = [job EXCEPT !.listPhaseComplete = TRUE]
            /\ UNCHANGED <<rolesSkipped, tasks>>
    /\ UNCHANGED <<tableVars, indexVars, maxPages, pagesProcessed, rolesFound,
                   seenUrls, collectedLinks, classifiedLinks, storeVars, progVars,
                   flowVars, fnVars, metricVars>>

\* the DETAIL handler on request t, from start to return
ExploreDetail(t) ==
    /\ pc = "crawl"
    /\ tasks[t].pc = "queued"
    /\ \E extractionFails \in BOOLEAN :
        IF extractionFails
        THEN /\ tasks' = [tasks EXCEPT ![t].pc = "done"]
             /\ UNCHANGED <<programme_discovery_drafts, role_discovery_drafts>>
        ELSE \E object \in DetailObjects, queryFails \in BOOLEAN,
                progInsertError \in BOOLEAN, roleInsertError \in BOOLEAN :
             \E suggestion \in DedupedSuggestions(programme_discovery_drafts,
                                    suggestProgramme(object, Null), queryFails) :
             \E out \in {saveDiscovery(programme_discovery_drafts, role_discovery_drafts,
                              TaskData([tasks[t] EXCEPT !.suggestion = suggestion]),
                              progInsertError, roleInsertError)} :
                /\ programme_discovery_drafts' = out.programmes
                /\ role_discovery_drafts' = out.roles
                /\ tasks' = [tasks EXCEPT ![t].pc = "done",
                                          ![t].suggestion = suggestion,
                                          ![t].saved = out.ok,
                                          ![t].programmeDraftId = out.programmeDraftId,
                                          ![t].roleDraftId = out.roleDraftId]
    /\ UNCHANGED <<program_roles, indexVars, pc, listVars, classifiedLinks, storeVars,
                   programs, progCall, flowVars, job, fnVars, metricVars>>

\* crawler.run resolves once no request is left; the metrics are returned
ExploreReturn ==
    /\ pc = "crawl"
    /\ \A t \in DOMAIN tasks : tasks[t].pc = "done"
    /\ job' = [job EXCEPT
                  !.phase = "returned",
                  !.success = TRUE,
                  !.metrics = [roles_found |-> rolesFound,
                               roles_skipped |-> rolesSkipped,
                               roles_new |-> job.rolesNew,
                               roles_url_changed |-> job.rolesUrlChanged,
                               roles_reopened |-> job.rolesReopened]]
    /\ pc' = "returned"
    /\ UNCHANGED <<tableVars, indexVars, listVars, classifiedLinks, storeVars,
                   progVars, tasks, flowVars, fnVars, metricVars>>

NextExplore ==
    \/ LoadIndexes
    \/ ExplorePageNoLinks
    \/ ExplorePage
    \/ ExploreLoopExit
    \/ CheckAndStartDetailPhase
    \/ \E t \in DOMAIN tasks : ExploreDetail(t)
    \/ ExploreReturn

SpecExplore == InitExplore /\ [][NextExplore]_vars

\* every step of the run is eventually taken: the crawler runs each handler
\* to its end and handles every request of its queue
FairExplore ==
    /\ SpecExplore
    /\ <>(pc # "start")
    /\ WF_vars(\/ ExplorePageNoLinks \/ ExplorePage \/ ExploreLoopExit
               \/ CheckAndStartDetailPhase
               \/ \E t \in DOMAIN tasks : ExploreDetail(t)
               \/ ExploreReturn)

\* the first link of a page, in the order the classifier returned them, that
\* is not skipped and has normalized URL n
FirstOccurrence(links, n) ==
    LET hits == {i \in 1..Len(links) :
                    links[i].action # "SKIP" /\ normalizeUrl(links[i].url) = n}
    IN links[CHOOSE i \in hits : \A j \in hits : i <= j]

\* C15: after every step of a list-phase run collectedLinks holds no SKIP link
\* and no two links with one normalized URL; it only grows at its end, every
\* link of the page that is not skipped is represented in it, and the link
\* added for a normalized URL is the first one the page has for that URL.
C15_CollectedStep ==
    /\ \A i \in 1..Len(collectedLinks') : collectedLinks'[i].action # "SKIP"
    /\ \A i, j \in 1..Len(collectedLinks') :
          normalizeUrl(collectedLinks'[i].url) = normalizeUrl(collectedLinks'[j].url)
          => i = j
    /\ Len(collectedLinks) <= Len(collectedLinks')
    /\ SubSeq(collectedLinks', 1, Len(collectedLinks)) = collectedLinks
    /\ \A k \in 1..Len(classifiedLinks') :
          classifiedLinks'[k].action # "SKIP"
          => \E i \in 1..Len(collectedLinks') :
                normalizeUrl(collectedLinks'[i].url) = normalizeUrl(classifiedLinks'[k].url)
    /\ \A i \in (Len(collectedLinks) + 1)..Len(collectedLinks') :
          collectedLinks'[i]
              = FirstOccurrence(classifiedLinks', normalizeUrl(collectedLinks'[i].url))

C15_CollectedFirstOccurrence == [][C15_CollectedStep]_vars

\* --------------------------------------------- the pagination loop terminates
\* the steps the run of the list phase has left at most: the pages up to the
\* cap, then the steps before and after the loop
LoopVariant ==
    (maxPages - pagesProcessed)
        + (IF pc = "start" THEN 2 ELSE IF pc = "loaded" THEN 1 ELSE 0)

\* after the loop has ended no page is processed any more
LoopStaysEnded == pc = "listed" => (pc' = "listed" /\ pagesProcessed' = pagesProcessed)

\* C16: the pagination loop of the list phase terminates (every step of the
\* run lowers a natural number that is never negative), pagesProcessed never
\* exceeds maxPages, and once the loop has ended (no further page, an empty
\* page, or the cap) no further page is processed.
C16_LoopStep ==
    /\ pagesProcessed' <= maxPages'
    /\ LoopVariant' < LoopVariant
    /\ LoopVariant' >= 0
    /\ LoopStaysEnded

C16_PaginationTerminates == [][C16_LoopStep]_vars

\* the loop ended below the cap because clickPaginationNext found no next page
C16_Witness ==
    /\ pc = "listed"
    /\ pagesProcessed = 1
    /\ maxPages = MaxPagesCfg
    /\ classifiedLinks # <<>>

\* a run of one page with two job links, one skipped and one new, whose
\* detail request was extracted and saved
OneSkipOneNewRun ==
    /\ pagesProcessed = 1
    /\ Len(classifiedLinks) = 2
    /\ SkipCount(classifiedLinks) = 1
    /\ Len(LinksWithAction(classifiedLinks, "NEW_ROLE")) = 1
    /\ Len(tasks) = 1
    /\ tasks[1].saved

\* C17: the roles_found metric runExplorationJob returns is the number of
\* links the classifier returned as job postings over all processed pages,
\* each counted once; a run of one page with two job links, one resolving to
\* SKIP and one to NEW_ROLE, reports roles_found = 2, roles_skipped = 1 and
\* roles_new = 1 and persists exactly one role draft.
C17_RolesFoundOncePerLink ==
    (pc = "returned" /\ job.success) =>
        /\ job.metrics.roles_found = job.allRolesInScan
        /\ OneSkipOneNewRun =>
              /\ job.metrics.roles_found = 2
              /\ job.metrics.roles_skipped = 1
              /\ job.metrics.roles_new = 1
              /\ Len(role_discovery_drafts) = 1

\* the loop of the list handler has ended: by its condition, by a break, or
\* by the return on a page without links
ListLoopEnded == pc \in {"list_end", "crawl", "returned"}

\* the URLs of the requests added to the crawler, in the order they were added
EnqueuedUrls == [t \in 1..Len(tasks) |-> tasks[t].url]

\* the URLs of the collected links, the first maxRoles of them under a limit
CollectedUrlsToExtract ==
    [i \in 1..Len(ExploreLinksToExtract(collectedLinks, maxRoles)) |->
        ExploreLinksToExtract(collectedLinks, maxRoles)[i].url]

\* C18: in runExplorationJob, once the loop over the list pages has ended, for
\* whatever reason, every collected link (the first maxRoles of them under a
\* limit) is eventually enqueued for detail extraction, each exactly once.
C18_CollectedEventuallyEnqueued ==
    ListLoopEnded ~> (EnqueuedUrls = CollectedUrlsToExtract)

\* -------------------------------------------------- normalizeUrl as a function
\* the strings normalizeUrl is applied to: scheme, ":" or "://", authority,
\* path, query and fragment, each present or absent, and the empty string
UrlInputs ==
    LET schemes == {<<"h","t","t","p","s">>, <<"H","T","T","P">>,
                    <<"m","a","i","l","t","o">>, <<>>}
        separators == {<<":">>, <<":","/","/">>}
        authorities == {<<>>, <<"x",".","c">>, <<"X",".","c">>,
                        <<"u","@","x",".","c">>, <<"x",".","c",":","8">>}
        paths == {<<>>, <<"/","a">>, <<"/","A","/">>}
        queries == {<<>>, <<"?","u","=","1">>}
        fragments == {<<>>, <<"#","f">>}
    IN {s \o p \o a \o path \o q \o f :
            s \in schemes, p \in separators, a \in authorities, path \in paths,
            q \in queries, f \in fragments}
       \cup {<<>>, U_BAD}

InitNormalizeUrl ==
    /\ pc = "normalizeUrl"
    /\ fnIn \in {<<u>> : u \in UrlInputs}
    /\ fnOut = <<>>
    /\ program_roles = {}
    /\ role_discovery_drafts = <<>>
    /\ existingRoles = NoIndex
    /\ dismissedDrafts = NoIndex
    /\ classifiedLinks = <<>>
    /\ IdleList
    /\ IdleStore
    /\ IdleProg
    /\ tasks = <<>>
    /\ IdleFlow
    /\ job = NoJob
    /\ IdleMetrics

\* normalizeUrl(url), and normalizeUrl applied to what it returned
NormalizeUrlCall ==
    /\ pc = "normalizeUrl"
    /\ fnOut' = <<normalizeUrl(fnIn[1]), normalizeUrl(normalizeUrl(fnIn[1]))>>
    /\ pc' = "normalizeUrl_done"
    /\ UNCHANGED <<tableVars, indexVars, listVars, classifiedLinks, storeVars,
                   progVars, tasks, flowVars, job, fnIn, metricVars>>

NextNormalizeUrl == NormalizeUrlCall

SpecNormalizeUrl == InitNormalizeUrl /\ [][NextNormalizeUrl]_vars

\* C19: normalizeUrl applied to its own result returns that result, for
\* parseable and unparseable strings; the result for a parseable URL has no
\* query string, no fragment and a lower-cased hostname; an unparseable
\* string is returned unchanged.
C19_NormalizeUrlIdempotent ==
    pc = "normalizeUrl_done" =>
        /\ fnOut[2] = fnOut[1]
        /\ (fnIn[1] # <<>> /\ ParseUrl(fnIn[1]).ok)
           => /\ \A i \in 1..Len(fnOut[1]) : fnOut[1][i] \notin {"?", "#"}
              /\ ParseUrl(fnIn[1]).hostname = ToLowerCase(ParseUrl(fnIn[1]).hostname)
        /\ (fnIn[1] # <<>> /\ ~ParseUrl(fnIn[1]).ok) => fnOut[1] = fnIn[1]

\* ----------------------------------------- extractCanonicalName as a function
\* the titles extractCanonicalName is applied to: two words, each absent, a
\* year, a letter or a year inside a word, around a separator, and an ending
TitleInputs ==
    LET first == {<<>>, <<"2","0","2","6">>, <<"A","n">>}
        separators == {<<" ">>, <<"-">>, <<"_">>, <<" "," ">>, <<"(">>}
        second == {<<>>, <<"2","0","2","5">>, <<"b">>, <<"x","2","0","2","6">>}
        endings == {<<>>, <<" ">>, <<"!">>}
    IN {a \o s \o b \o e :
            a \in first, s \in separators, b \in second, e \in endings}
       \cup {<<>>, T_A, T_C, T_E}

InitCanonicalName ==
    /\ pc = "canonicalName"
    /\ fnIn \in {<<t>> : t \in TitleInputs}
    /\ fnOut = <<>>
    /\ program_roles = {}
    /\ role_discovery_drafts = <<>>
    /\ existingRoles = NoIndex
    /\ dismissedDrafts = NoIndex
    /\ classifiedLinks = <<>>
    /\ IdleList
    /\ IdleStore
    /\ IdleProg
    /\ tasks = <<>>
    /\ IdleFlow
    /\ job = NoJob
    /\ IdleMetrics

\* extractCanonicalName(title), and the function applied to what it returned
CanonicalNameCall ==
    /\ pc = "canonicalName"
    /\ fnOut' = <<extractCanonicalName(fnIn[1]),
                  extractCanonicalName(extractCanonicalName(fnIn[1]))>>
    /\ pc' = "canonicalName_done"
    /\ UNCHANGED <<tableVars, indexVars, listVars, classifiedLinks, storeVars,
                   progVars, tasks, flowVars, job, fnIn, metricVars>>

NextCanonicalName == CanonicalNameCall

SpecCanonicalName == InitCanonicalName /\ [][NextCanonicalName]_vars

\* C20: extractCanonicalName applied to its own result returns that result;
\* the empty title gives the empty string; the result holds no standalone
\* 20xx year, no punctuation (only letters, digits and spaces), no upper-case
\* letter, no space at either end and no two spaces in a row.
C20_CanonicalNameIdempotent ==
    pc = "canonicalName_done" =>
        /\ fnOut[2] = fnOut[1]
        /\ fnIn[1] = <<>> => fnOut[1] = <<>>
        /\ \A i \in 1..Len(fnOut[1]) :
              /\ ~YearAt(fnOut[1], i)
              /\ fnOut[1][i] \in LowerChars \cup DigitChars \cup {" "}
              /\ (i = 1 \/ i = Len(fnOut[1])) => fnOut[1][i] # " "
              /\ (i > 1 /\ fnOut[1][i] = " ") => fnOut[1][i - 1] # " "

\* ------------------------------------------------ loaders with a failing store
\* the outcome of the two store reads of a run, kept for the run
LoadOutcome(rolesError, draftsError) ==
    [phase |-> "load", rolesError |-> rolesError, draftsError |-> draftsError]

InitLoad ==
    /\ program_roles \in ListRoleTables
    /\ role_discovery_drafts \in ListDraftTables
    /\ existingRoles = NoIndex
    /\ dismissedDrafts = NoIndex
    /\ pc = "start"
    /\ classifiedLinks = <<>>
    /\ IdleList
    /\ IdleStore
    /\ IdleProg
    /\ tasks = <<>>
    /\ IdleFlow
    /\ job = NoJob
    /\ IdleFn
    /\ IdleMetrics

\* the two loads that open a run, each store read answering or failing
LoadIndexesOrFail ==
    /\ pc = "start"
    /\ \E rolesError \in BOOLEAN, draftsError \in BOOLEAN :
          /\ \E roles \in Orderings(ExistingRolesQuery(program_roles, RunFirm)) :
                existingRoles' = loadExistingRoles(roles, rolesError)
          /\ \E drafts \in Orderings(Range(DismissedDraftsQuery(role_discovery_drafts, RunFirm))) :
                dismissedDrafts' = loadDismissedDrafts(drafts, draftsError)
          /\ job' = LoadOutcome(rolesError, draftsError)
    /\ pc' = "loaded"
    /\ UNCHANGED <<tableVars, listVars, classifiedLinks, storeVars, progVars, tasks,
                   flowVars, fnVars, metricVars>>

NextLoad == LoadIndexesOrFail \/ ResolveOne

SpecLoad == InitLoad /\ [][NextLoad]_vars

\* C21: a failed store read of loadExistingRoles or loadDismissedDrafts gives
\* two empty maps, the run goes on to classify, and a candidate that matches
\* none of the indexes that remain is classified NEW_ROLE.
C21_LoaderFailsOpen ==
    pc = "loaded" =>
        /\ job.rolesError => existingRoles = NoIndex
        /\ job.draftsError => dismissedDrafts = NoIndex
        /\ \A l \in Links :
              ~(DismissedLink(l) \/ UrlIndexed(l) \/ NameIndexed(l))
              => l.action = "NEW_ROLE"

\* the read of program_roles failed while the firm has a role at the
\* candidate's URL: the candidate is classified as a new role
C21_Witness ==
    /\ pc = "loaded"
    /\ job.rolesError
    /\ ~job.draftsError
    /\ \E l \in Links, r \in ExistingRolesQuery(program_roles, RunFirm) :
          /\ r.url # NullStr
          /\ normalizeUrl(r.url) = KeyUrl(l)
          /\ l.action = "NEW_ROLE"

\* ------------------------------------------- successive runs over one store
\* the pages of these runs hold one role link
RunUrls == {U_A, U_AQ}
RunTitles == {T_C}
\* the firm has no role yet, or the closed role r1
RunRoleTables == {{}, {WithIsOpen(sh, "false") : sh \in {r \in RoleRowShapes : r.id = "r1"}}}

InitRuns ==
    /\ program_roles \in RunRoleTables
    /\ role_discovery_drafts = <<>>
    /\ existingRoles = NoIndex
    /\ dismissedDrafts = NoIndex
    /\ pc = "start"
    /\ classifiedLinks = <<>>
    /\ IdleList
    /\ IdleStore
    /\ IdleProg
    /\ tasks = <<>>
    /\ IdleFlow
    /\ job = NoJob
    /\ IdleFn
    /\ IdleMetrics

\* the list handler on a page with one role link, and the requests
\* checkAndStartDetailPhase adds for it
RunListPage ==
    /\ pc = "loaded"
    /\ \E u \in RunUrls, t \in RunTitles :
          classifiedLinks' = ClassifyLinks(<<[url |-> u, title |-> t]>>)
    /\ pagesProcessed' = pagesProcessed + 1
    /\ rolesFound' = rolesFound + FoundOnPage(classifiedLinks')
    /\ rolesSkipped' = rolesSkipped + SkipCount(classifiedLinks')
    /\ \E acc \in {CollectLinks(ToCollect(classifiedLinks'),
                                [seen |-> seenUrls, collected |-> collectedLinks])} :
          /\ seenUrls' = acc.seen
          /\ collectedLinks' = acc.collected
          /\ tasks' = [t \in 1..Len(acc.collected) |-> QueuedTaskOf(acc.collected[t])]
    /\ pc' = "crawl"
    /\ UNCHANGED <<tableVars, indexVars, maxPages, storeVars, progVars, flowVars,
                   job, fnVars, metricVars>>

\* crawler.run resolves; the run is over
RunEnds ==
    /\ pc = "crawl"
    /\ \A t \in DOMAIN tasks : tasks[t].pc = "done"
    /\ pc' = "returned"
    /\ UNCHANGED <<tableVars, indexVars, listVars, classifiedLinks, storeVars,
                   progVars, tasks, flowVars, job, fnVars, metricVars>>

\* between two runs an admin dismisses role drafts
DismissBetweenRuns ==
    /\ pc = "returned"
    /\ \E ids \in SUBSET (1..Len(role_discovery_drafts)), updateError \in BOOLEAN :
          /\ ids # {}
          /\ role_discovery_drafts' =
                 dismissDiscoveries(role_discovery_drafts, ids, updateError)
    /\ UNCHANGED <<program_roles, indexVars, pc, listVars, classifiedLinks, storeVars,
                   progVars, tasks, flowVars, job, fnVars, metricVars>>

\* the next run of the firm starts from the store as the last one left it
NextRunStarts ==
    /\ pc = "returned"
    /\ Len(role_discovery_drafts) < MaxDrafts
    /\ Len(programme_discovery_drafts) < MaxProgDrafts
    /\ pc' = "start"
    /\ existingRoles' = NoIndex
    /\ dismissedDrafts' = NoIndex
    /\ classifiedLinks' = <<>>
    /\ tasks' = <<>>
    /\ job' = NoJob
    /\ pagesProcessed' = 0
    /\ rolesFound' = 0
    /\ rolesSkipped' = 0
    /\ seenUrls' = {}
    /\ collectedLinks' = <<>>
    /\ UNCHANGED <<tableVars, maxPages, storeVars, progVars, flowVars, fnVars, metricVars>>

NextRuns ==
    \/ LoadIndexesOrFail
    \/ RunListPage
    \/ \E t \in DOMAIN tasks : ExploreDetail(t)
    \/ RunEnds
    \/ DismissBetweenRuns
    \/ NextRunStarts

SpecRuns == InitRuns /\ [][NextRuns]_vars

\* the firm of the run has a dismissed role draft whose URL normalizes as url
DismissedBefore(url) ==
    \E i \in 1..Len(role_discovery_drafts) :
        /\ role_discovery_drafts[i].firm_id = RunFirm
        /\ role_discovery_drafts[i].status = "dismissed"
        /\ Truthy(role_discovery_drafts[i].url)
        /\ normalizeUrl(role_discovery_drafts[i].url) = normalizeUrl(url)

\* a step of the crawl of a run keeps a dismissed candidate out
StickyStep ==
    \A i \in 1..Len(classifiedLinks') :
        DismissedBefore(classifiedLinks'[i].url)
        => /\ classifiedLinks'[i].action = "SKIP"
           /\ role_discovery_drafts' = role_discovery_drafts

C23_OnePendingPerPosting ==
    \A i, j \in 1..Len(role_discovery_drafts) :
        (/\ i < j
         /\ role_discovery_drafts[i].firm_id = role_discovery_drafts[j].firm_id
         /\ role_discovery_drafts[i].status = "pending"
         /\ role_discovery_drafts[j].status = "pending"
         /\ role_discovery_drafts[i].update_type = "NEW_ROLE"
         /\ role_discovery_drafts[j].update_type = "NEW_ROLE")
        => normalizeUrl(role_discovery_drafts[i].url)
               # normalizeUrl(role_discovery_drafts[j].url)

\* ------------------------------------------------------------ approveRoleDraft
\* a row of program_roles as the approval functions read and write it;
\* program_id is the position of the programme in programs
ProgramRole(id, programId, roleId, source, url, title, isOpen, closedDate) ==
    [id |-> id, program_id |-> programId, role_id |-> roleId, source |-> source,
     url |-> url, title |-> title, is_open |-> isOpen, closed_date |-> closedDate]

\* a row of role_discovery_drafts as the approval functions read it;
\* program_id is 0 for null
ReviewDraft(firm, url, erid, utype, status, title, isOpen, pdid, programId) ==
    [firm_id |-> firm, url |-> url, existing_role_id |-> erid,
     update_type |-> utype, status |-> status,
     scraped_data |-> [title |-> title, is_open |-> isOpen],
     programme_discovery_draft_id |-> pdid, program_id |-> programId]

\* the id the store gives an inserted row: the first free one of n1, n2, ...
NewRoleId(roles) ==
    LET ids == {r.id : r \in roles}
        k == CHOOSE n \in 1..(Cardinality(roles) + 1) :
                 /\ ("n" \o ToString(n)) \notin ids
                 /\ \A j \in 1..(n - 1) : ("n" \o ToString(j)) \in ids
    IN "n" \o ToString(k)

\* const roleData = {...}: the fields of the role taken from the draft
RoleDataIsOpen(draft) ==
    IF draft.scraped_data.is_open # "false" THEN "true" ELSE "false"

\* .insert({ program_id: programmeId, role_id: roleId, ...roleData })
InsertedRole(roles, draft, programmeId, roleId) ==
    ProgramRole(NewRoleId(roles), programmeId, roleId, "careers-scraper",
                draft.url, draft.scraped_data.title, RoleDataIsOpen(draft), Null)

\* updateData: roleData, and for REOPENING is_open = true, closed_date = null
UpdatedRole(role, draft) ==
    [role EXCEPT !.source = "careers-scraper", !.url = draft.url,
                 !.title = draft.scraped_data.title,
                 !.is_open = IF draft.update_type = "REOPENING" THEN "true"
                             ELSE RoleDataIsOpen(draft),
                 !.closed_date = IF draft.update_type = "REOPENING" THEN Null
                                 ELSE @]

\* .update(updateData).eq('id', existingRoleId)
UpdateRoleById(roles, id, draft) ==
    {IF r.id = id THEN UpdatedRole(r, draft) ELSE r : r \in roles}

ApproveRoleFailed(drafts, roles) ==
    [drafts |-> drafts, roles |-> roles, success |-> FALSE, roleId |-> Null]

\* the result is the two tables afterwards and the value returned; fetchError,
\* writeError and statusError are the answers of the store to the fetch of the
\* draft, the insert or update of the role and the update of the draft status
approveRoleDraft(drafts, roles, draftId, programmeId, roleId, fetchError, writeError, statusError) ==
    IF fetchError \/ draftId \notin 1..Len(drafts)
    THEN ApproveRoleFailed(drafts, roles)
    ELSE LET draft == drafts[draftId]
         IN IF draft.update_type = "NEW_ROLE"
            THEN IF writeError THEN ApproveRoleFailed(drafts, roles)
                 ELSE [drafts |-> MarkApproved(drafts, draftId, statusError),
                       roles |-> roles \cup {InsertedRole(roles, draft, programmeId, roleId)},
                       success |-> TRUE, roleId |-> Null]
            ELSE IF draft.update_type \in {"URL_CHANGED", "REOPENING"}
            THEN IF ~TruthyId(draft.existing_role_id)
                 THEN ApproveRoleFailed(drafts, roles)
                 ELSE IF writeError THEN ApproveRoleFailed(drafts, roles)
                 ELSE [drafts |-> MarkApproved(drafts, draftId, statusError),
                       roles |-> UpdateRoleById(roles, draft.existing_role_id, draft),
                       success |-> TRUE, roleId |-> draft.existing_role_id]
            ELSE ApproveRoleFailed(drafts, roles)

\* ------------------------------------------------------- the delete helpers
\* the firm of a role: programs!inner(firm_id); "null" when the programme is gone
FirmOfRole(progs, role) ==
    IF role.program_id \in 1..Len(progs) THEN progs[role.program_id].firm_id
    ELSE Null

\* .delete().eq('program_id', programmeId).eq('source', 'trackr'); an error is
\* thrown
deleteTrackrRoles(roles, programmeId, deleteError) ==
    IF deleteError THEN [roles |-> roles, thrown |-> TRUE]
    ELSE [roles |-> {r \in roles :
                        ~(r.program_id = programmeId /\ r.source = "trackr")},
          thrown |-> FALSE]

\* failure names the store call that fails: "none", "select" (the roles to
\* delete), "programs" (the programmes of the firm) or "delete"; only the error
\* of the delete is read
deleteFirmTrackrRoles(roles, progs, firmId, failure) ==
    LET rolesToDelete ==
            IF failure = "select" THEN {}
            ELSE {r \in roles : FirmOfRole(progs, r) = firmId /\ r.source = "trackr"}
        programIds ==
            IF failure = "programs" THEN {}
            ELSE {i \in 1..Len(progs) : progs[i].firm_id = firmId}
    IN IF rolesToDelete = {} \/ programIds = {}
       THEN [roles |-> roles, thrown |-> FALSE]
       ELSE IF failure = "delete" THEN [roles |-> roles, thrown |-> TRUE]
       ELSE [roles |-> {r \in roles :
                           ~(r.program_id \in programIds /\ r.source = "trackr")},
             thrown |-> FALSE]

\* --------------------------------------------------- approveProgrammeWithRoles
\* the answers of the store during one approval: fetchError (a fetch of role
\* drafts), countError (the count of Trackr roles), deleteError (the delete of
\* deleteTrackrRoles), cleanup (the failing call of deleteFirmTrackrRoles),
\* createError and updateError (approveProgrammeDraft), writeError and
\* statusError (approveRoleDraft), and roleId, what mapRoleTypeToRoleId returns
Answers(failing) ==
    [fetchError |-> failing = "fetch", countError |-> failing = "count",
     deleteError |-> failing = "delete",
     cleanup |-> IF failing \in {"select", "programs", "delete"} THEN failing
                 ELSE "none",
     collisionError |-> failing = "collision",
     createError |-> failing = "create", updateError |-> failing = "update",
     writeError |-> failing = "write", statusError |-> failing = "status",
     roleId |-> "analyst"]

\* in one approval no store call fails, or the calls of one kind do
StoreAnswers ==
    {Answers(failing) : failing \in {"none", "fetch", "count", "delete", "select",
                                     "programs", "collision", "create", "update",
                                     "write", "status"}}

\* the four tables an approval works on
Tables(drafts, pdrafts, progs, roles) ==
    [drafts |-> drafts, pdrafts |-> pdrafts, progs |-> progs, roles |-> roles]

\* Step 4: for (const roleDraft of roleDrafts) approveRoleDraft(roleDraft.id,
\* programmeId); acc holds the tables and rolesCreated
RECURSIVE ApproveLinkedDrafts(_, _, _, _)
ApproveLinkedDrafts(ids, programmeId, acc, env) ==
    IF ids = {} THEN acc
    ELSE LET id == CHOOSE i \in ids : \A j \in ids : i <= j
             out == approveRoleDraft(acc.drafts, acc.roles, id, programmeId,
                                     env.roleId, FALSE, env.writeError, env.statusError)
         IN ApproveLinkedDrafts(ids \ {id}, programmeId,
                [acc EXCEPT !.drafts = out.drafts, !.roles = out.roles,
                            !.rolesCreated = IF out.success THEN @ + 1 ELSE @],
                env)

\* Step 3: .eq('programme_discovery_draft_id', programmeDraftId)
\*         .eq('status', 'pending')
LinkedPendingDrafts(drafts, programmeDraftId) ==
    {i \in 1..Len(drafts) :
        /\ drafts[i].programme_discovery_draft_id = ProgrammeDraftRef(programmeDraftId)
        /\ drafts[i].status = "pending"}

\* Step 2: the count of the Trackr roles of the programme, null read as 0
TrackrCount(roles, programmeId, countError) ==
    IF countError THEN 0
    ELSE Cardinality({r \in roles : r.program_id = programmeId /\ r.source = "trackr"})

\* the result is the tables afterwards and the value returned
approveProgrammeWithRoles(t, programmeDraftId, env) ==
    LET prog == approveProgrammeDraft(t.pdrafts, t.progs, programmeDraftId,
                                      env.collisionError, env.createError,
                                      env.updateError)
    IN IF ~prog.success \/ prog.programmeId = 0
       THEN [tables |-> t, success |-> FALSE, programmeId |-> 0,
             rolesCreated |-> 0, rolesDeleted |-> 0]
       ELSE LET rolesDeleted == TrackrCount(t.roles, prog.programmeId, env.countError)
                del == IF rolesDeleted > 0
                       THEN deleteTrackrRoles(t.roles, prog.programmeId, env.deleteError)
                       ELSE [roles |-> t.roles, thrown |-> FALSE]
                t1 == Tables(t.drafts, prog.drafts, prog.programs, del.roles)
            IN IF del.thrown \/ env.fetchError
               THEN [tables |-> t1, success |-> FALSE, programmeId |-> prog.programmeId,
                     rolesCreated |-> 0, rolesDeleted |-> 0]
               ELSE LET acc == ApproveLinkedDrafts(
                                   LinkedPendingDrafts(t.drafts, programmeDraftId),
                                   prog.programmeId,
                                   [drafts |-> t.drafts, roles |-> del.roles,
                                    rolesCreated |-> 0],
                                   env)
                    IN [tables |-> Tables(acc.drafts, prog.drafts, prog.programs, acc.roles),
                        success |-> TRUE, programmeId |-> prog.programmeId,
                        rolesCreated |-> acc.rolesCreated,
                        rolesDeleted |-> rolesDeleted]

\* ------------------------------------------------------ approveStandaloneRoles
\* the programme draft a reference names
DraftOfRef(ref) == CHOOSE i \in 1..(MaxProgDrafts + 1) : ProgrammeDraftRef(i) = ref

\* the target of a role draft when no roleProgrammeMap is given
TargetOfDraft(draft) ==
    IF draft.program_id # 0 THEN [id |-> draft.program_id, isDraft |-> FALSE]
    ELSE IF TruthyId(draft.programme_discovery_draft_id)
    THEN [id |-> DraftOfRef(draft.programme_discovery_draft_id), isDraft |-> TRUE]
    ELSE [id |-> 0, isDraft |-> FALSE]

\* "Clean up firm-wide Trackr roles if not done yet"; a thrown error is logged
CleanFirm(s, firmId, env) ==
    IF firmId \in s.firmsCleaned THEN s
    ELSE LET del == deleteFirmTrackrRoles(s.roles, s.progs, firmId, env.cleanup)
         IN IF del.thrown THEN s
            ELSE [s EXCEPT !.roles = del.roles, !.firmsCleaned = @ \cup {firmId}]

\* "2. Resolve Programme ID (if it's a draft)": the state afterwards and the
\* programme id, 0 when the programme draft could not be approved
ResolveTarget(s, target, env) ==
    IF ~target.isDraft THEN [s |-> s, id |-> target.id]
    ELSE IF MapHas(s.cache, target.id) THEN [s |-> s, id |-> s.cache[target.id]]
    ELSE LET prog == approveProgrammeDraft(s.pdrafts, s.progs, target.id,
                                           env.collisionError, env.createError,
                                           env.updateError)
         IN IF ~prog.success \/ prog.programmeId = 0 THEN [s |-> s, id |-> 0]
            ELSE [s |-> [s EXCEPT !.pdrafts = prog.drafts, !.progs = prog.programs,
                                  !.cache = MapSet(@, target.id, prog.programmeId)],
                  id |-> prog.programmeId]

\* one iteration of the loop over roleDraftIds
StandaloneStep(s, draftId, env) ==
    IF env.fetchError \/ draftId \notin 1..Len(s.drafts)
    THEN [s EXCEPT !.errors = @ + 1]
    ELSE LET draft == s.drafts[draftId]
             cleaned == CleanFirm(s, draft.firm_id, env)
             target == TargetOfDraft(draft)
         IN IF target.id = 0 THEN [cleaned EXCEPT !.errors = @ + 1]
            ELSE LET res == ResolveTarget(cleaned, target, env)
                 IN IF res.id = 0 THEN [res.s EXCEPT !.errors = @ + 1]
                    ELSE LET out == approveRoleDraft(res.s.drafts, res.s.roles, draftId,
                                        res.id, env.roleId, FALSE,
                                        env.writeError, env.statusError)
                         IN [res.s EXCEPT !.drafts = out.drafts, !.roles = out.roles,
                                          !.rolesCreated = IF out.success THEN @ + 1 ELSE @,
                                          !.errors = IF out.success THEN @ ELSE @ + 1]

RECURSIVE StandaloneLoop(_, _, _)
StandaloneLoop(s, roleDraftIds, env) ==
    IF roleDraftIds = <<>> THEN s
    ELSE StandaloneLoop(StandaloneStep(s, Head(roleDraftIds), env),
                        Tail(roleDraftIds), env)

\* approveStandaloneRoles(roleDraftIds) without a roleProgrammeMap; the result
\* is the tables afterwards and the value returned
approveStandaloneRoles(t, roleDraftIds, env) ==
    LET s == StandaloneLoop([drafts |-> t.drafts, pdrafts |-> t.pdrafts,
                             progs |-> t.progs, roles |-> t.roles,
                             cache |-> EmptyMap, firmsCleaned |-> {},
                             rolesCreated |-> 0, errors |-> 0],
                            roleDraftIds, env)
    IN [tables |-> Tables(s.drafts, s.pdrafts, s.progs, s.roles),
        success |-> s.errors = 0, rolesCreated |-> s.rolesCreated,
        errors |-> s.errors]

\* ----------------------------------------------- the review of the discoveries
MaxRoleRows == 4

\* the programme of the firm, a draft that names it and a draft of a new one
ReviewProgrammes == <<Programme("f1", "Grad", "grad", "graduate")>>
ReviewProgrammeDrafts ==
    <<ProgrammeDraft("f1", "Grad", "grad", "graduate", "u1", "pending"),
      ProgrammeDraft("f1", "Ops", "ops", "graduate", "u1", "pending")>>

\* the roles of the programme: one made by hand, one of the legacy import, one
\* scraped and closed
ReviewRoles ==
    {ProgramRole("m1", 1, "analyst", "manual", U_B, T_C, "true", Null),
     ProgramRole("t1", 1, "analyst", "trackr", NullStr, NullStr, Null, Null),
     ProgramRole("s1", 1, "analyst", "careers-scraper", U_A, T_A, "false", "d1")}

\* pending drafts of the firm, two at a time: a new role under a programme
\* draft, the reopening of s1 with scraped data that say closed, a new URL for
\* the legacy role t1 and one for the manual role m1
ReviewDraftTables ==
    {<<ReviewDraft("f1", U_B, Undefined, "NEW_ROLE", "pending", T_C, "true", "1", 0),
       ReviewDraft("f1", U_AQ, "s1", "REOPENING", "pending", T_A, "false", Null, 1)>>,
     <<ReviewDraft("f1", U_BAD, Undefined, "NEW_ROLE", "pending", T_C, Null, "2", 0),
       ReviewDraft("f1", U_B, "t1", "URL_CHANGED", "pending", T_C, Null, Null, 1)>>,
     <<ReviewDraft("f1", U_A, "m1", "URL_CHANGED", "pending", T_C, "true", Null, 1),
       ReviewDraft("f1", U_B, "t1", "URL_CHANGED", "pending", T_C, Null, Null, 1)>>}

InitReview ==
    /\ program_roles = ReviewRoles
    /\ role_discovery_drafts \in ReviewDraftTables
    /\ existingRoles = NoIndex
    /\ dismissedDrafts = NoIndex
    /\ pc = "review"
    /\ classifiedLinks = <<>>
    /\ IdleList
    /\ IdleStore
    /\ programme_discovery_drafts = ReviewProgrammeDrafts
    /\ programs = ReviewProgrammes
    /\ progCall = NoProgCall
    /\ tasks = <<>>
    /\ IdleFlow
    /\ job = NoJob
    /\ IdleFn
    /\ IdleMetrics

ReviewTables ==
    Tables(role_discovery_drafts, programme_discovery_drafts, programs, program_roles)

\* an admin approves one role draft under a programme
ApproveRoleDraftCall ==
    /\ pc = "review"
    /\ \E draftId \in 1..Len(role_discovery_drafts), programmeId \in 1..Len(programs),
          env \in {Answers(f) : f \in {"none", "fetch", "write", "status"}} :
       \E out \in {approveRoleDraft(role_discovery_drafts, program_roles, draftId,
                       programmeId, env.roleId, env.fetchError, env.writeError,
                       env.statusError)} :
          /\ Cardinality(out.roles) <= MaxRoleRows
          /\ role_discovery_drafts' = out.drafts
          /\ program_roles' = out.roles
          /\ progCall' = [op |-> "approveRole", draftId |-> draftId,
                          programmeId |-> programmeId,
                          draft |-> role_discovery_drafts[draftId],
                          before |-> program_roles, success |-> out.success]
    /\ UNCHANGED <<indexVars, pc, listVars, classifiedLinks, storeVars,
                   programme_discovery_drafts, programs, tasks, flowVars, job, fnVars, metricVars>>

\* an admin approves a programme draft with the role drafts linked to it
ApproveProgrammeWithRolesCall ==
    /\ pc = "review"
    /\ \E programmeDraftId \in 1..Len(programme_discovery_drafts), env \in StoreAnswers :
       \E out \in {approveProgrammeWithRoles(ReviewTables, programmeDraftId, env)} :
          /\ Cardinality(out.tables.roles) <= MaxRoleRows
          /\ Len(out.tables.progs) <= MaxProgrammes
          /\ role_discovery_drafts' = out.tables.drafts
          /\ programme_discovery_drafts' = out.tables.pdrafts
          /\ programs' = out.tables.progs
          /\ program_roles' = out.tables.roles
          /\ progCall' = [op |-> "approveProgrammeWithRoles",
                          programmeId |-> out.programmeId,
                          before |-> program_roles, success |-> out.success]
    /\ UNCHANGED <<indexVars, pc, listVars, classifiedLinks, storeVars, tasks,
                   flowVars, job, fnVars, metricVars>>

\* an admin approves role drafts on their own
ApproveStandaloneRolesCall ==
    /\ pc = "review"
    /\ \E ids \in SUBSET (1..Len(role_discovery_drafts)), env \in StoreAnswers :
       \E roleDraftIds \in Orderings(ids) :
       \E out \in {approveStandaloneRoles(ReviewTables, roleDraftIds, env)} :
          /\ ids # {}
          /\ Cardinality(out.tables.roles) <= MaxRoleRows
          /\ Len(out.tables.progs) <= MaxProgrammes
          /\ role_discovery_drafts' = out.tables.drafts
          /\ programme_discovery_drafts' = out.tables.pdrafts
          /\ programs' = out.tables.progs
          /\ program_roles' = out.tables.roles
          /\ progCall' = [op |-> "approveStandaloneRoles",
                          firms |-> {role_discovery_drafts[i].firm_id : i \in ids},
                          before |-> program_roles, success |-> out.success]
    /\ UNCHANGED <<indexVars, pc, listVars, classifiedLinks, storeVars, tasks,
                   flowVars, job, fnVars, metricVars>>

NextReview ==
    \/ ApproveRoleDraftCall
    \/ ApproveProgrammeWithRolesCall
    \/ ApproveStandaloneRolesCall

SpecReview == InitReview /\ [][NextReview]_vars

\* the role of the last approveRoleDraft call after it
RoleAfter(id) == {r \in program_roles : r.id = id}

\* C24: a successful approveRoleDraft call applies the draft by its update
\* type: NEW_ROLE inserts one role under the given programme, URL_CHANGED and
\* REOPENING update the role existing_role_id names, a reopened role has
\* is_open = true and closed_date = null whatever the scraped data say, and the
\* draft is approved afterwards.
C24_ApproveAppliesUpdateType ==
    (progCall.op = "approveRole" /\ progCall.success)
    => /\ progCall.draft.update_type = "NEW_ROLE"
          => \E r \in program_roles \ progCall.before :
                /\ program_roles = progCall.before \cup {r}
                /\ r.program_id = progCall.programmeId
                /\ r.url = progCall.draft.url
       /\ progCall.draft.update_type \in {"URL_CHANGED", "REOPENING"}
          => /\ \E r \in RoleAfter(progCall.draft.existing_role_id) :
                   /\ r.url = progCall.draft.url
                   /\ r.title = progCall.draft.scraped_data.title
             /\ \A r \in progCall.before :
                   r.id # progCall.draft.existing_role_id => r \in program_roles
       /\ progCall.draft.update_type = "REOPENING"
          => \A r \in RoleAfter(progCall.draft.existing_role_id) :
                r.is_open = "true" /\ r.closed_date = Null
       /\ role_discovery_drafts[progCall.draftId].status = "approved"

\* the Trackr roles an approval is to delete: those of the programme approved,
\* or those of the firms of the role drafts approved
TrackrInScope(role) ==
    /\ role.source = "trackr"
    /\ IF progCall.op = "approveProgrammeWithRoles"
       THEN role.program_id = progCall.programmeId
       ELSE FirmOfRole(programs, role) \in progCall.firms

\* C25: after approveProgrammeWithRoles or approveStandaloneRoles every manual
\* role that was there before the call is still there, and after a call that
\* reports success no Trackr role of its deletion scope is left.
C25_ManualKeptTrackrRemoved ==
    progCall.op \in {"approveProgrammeWithRoles", "approveStandaloneRoles"}
    => /\ \A r \in progCall.before :
             r.source = "manual" => \E q \in program_roles : q.id = r.id
       /\ progCall.success => \A r \in program_roles : ~TrackrInScope(r)

\* ------------------------------------------------------ updateScrapeUrlMetrics
\* "Keep last 50 runs only": .slice(-50)
RunsHistoryKept == 50
MaxRuns == 52

\* Array.prototype.slice(-n)
SliceLast(seq, n) ==
    IF Len(seq) <= n THEN seq ELSE SubSeq(seq, Len(seq) - n + 1, Len(seq))

\* the metrics of a run; the counters of a failed run are 0
RunMetrics(found, tokens) ==
    [roles_found |-> found, roles_skipped |-> 0, roles_new |-> found,
     roles_url_changed |-> 0, roles_reopened |-> 0, total_tokens_used |-> tokens,
     total_cost_usd |-> 0, duration_seconds |-> 1]

\* a row of scrape_urls
ScrapeUrlRow(history, metrics, status, errorCount, lastError) ==
    [runs_history |-> history, metrics |-> metrics, status |-> status,
     error_count |-> errorCount, last_error |-> lastError]

\* const newRunEntry = { timestamp, metrics, error: data.error || null }
NewRunEntry(timestamp, data) ==
    [timestamp |-> timestamp, metrics |-> data.metrics,
     error |-> IF data.error = "" THEN Null ELSE data.error]

\* the row of the listing after the call at time timestamp; fetchError and
\* updateError are the answers of the store to the select and to the update;
\* after a failed select the history read is empty
updateScrapeUrlMetrics(row, data, timestamp, fetchError, updateError) ==
    LET currentRunsHistory == IF fetchError THEN <<>> ELSE row.runs_history
        updatedRunsHistory ==
            SliceLast(Append(currentRunsHistory, NewRunEntry(timestamp, data)),
                      RunsHistoryKept)
    IN IF updateError THEN row
       ELSE IF data.error # Null /\ data.error # ""
       THEN ScrapeUrlRow(updatedRunsHistory, data.metrics, "failed",
                         [increment |-> 1], data.error)
       ELSE ScrapeUrlRow(updatedRunsHistory, data.metrics, "active", 0,
                         row.last_error)

\* the timestamps of the entries of a history
HistoryTimestamps(row) ==
    [i \in 1..Len(row.runs_history) |-> row.runs_history[i].timestamp]

InitHistory ==
    /\ program_roles = {}
    /\ role_discovery_drafts = <<>>
    /\ existingRoles = NoIndex
    /\ dismissedDrafts = NoIndex
    /\ pc = "metrics"
    /\ classifiedLinks = <<>>
    /\ IdleList
    /\ IdleStore
    /\ IdleProg
    /\ tasks = <<>>
    /\ IdleFlow
    /\ job = [phase |-> "metrics", runs |-> 0, recorded |-> {}]
    /\ IdleFn
    /\ scrape_urls = (RunScrapeUrl :> ScrapeUrlRow(<<>>, RunMetrics(0, 0), "active", 0, Null))

\* the run job.runs + 1 of the listing ends and records its metrics;
\* job.recorded holds the runs whose update the store answered. The store fails
\* in at most one call of a history, and only the first run reports an error
UpdateMetricsCall ==
    /\ pc = "metrics"
    /\ job.runs < MaxRuns
    /\ \E fetchError \in BOOLEAN, updateError \in BOOLEAN, error \in {Null, "boom"} :
          /\ (fetchError \/ updateError)
             => /\ ~(fetchError /\ updateError)
                /\ job.recorded = 1..job.runs
                /\ HistoryTimestamps(scrape_urls[RunScrapeUrl])
                       = SliceLast([i \in 1..job.runs |-> i], RunsHistoryKept)
          /\ error # Null => job.runs = 0
          /\ scrape_urls' =
                [scrape_urls EXCEPT ![RunScrapeUrl] =
                    updateScrapeUrlMetrics(@, [metrics |-> RunMetrics(0, 0), error |-> error],
                                           job.runs + 1, fetchError, updateError)]
          /\ job' = [job EXCEPT !.runs = @ + 1,
                                !.recorded = IF updateError THEN @
                                             ELSE @ \cup {job.runs + 1}]
    /\ UNCHANGED <<tableVars, indexVars, pc, listVars, classifiedLinks, storeVars,
                   progVars, tasks, flowVars, fnVars>>

NextHistory == UpdateMetricsCall

SpecHistory == InitHistory /\ [][NextHistory]_vars

\* the recorded runs in call order
RECURSIVE Ascending(_)
Ascending(S) ==
    IF S = {} THEN <<>>
    ELSE LET m == CHOOSE x \in S : \A y \in S : y <= x
         IN Append(Ascending(S \ {m}), m)

\* C26: after any sequence of updateScrapeUrlMetrics calls for a listing,
\* runs_history has at most 50 entries, and they are the entries of the last
\* min(n, 50) of the n runs recorded, in call order, the latest last.
C26_HistoryKeepsLast50 ==
    /\ Len(scrape_urls[RunScrapeUrl].runs_history) <= RunsHistoryKept
    /\ HistoryTimestamps(scrape_urls[RunScrapeUrl])
           = SliceLast(Ascending(job.recorded), RunsHistoryKept)

\* ----------------------------- runExplorationJob and runDetailPhase: failures
\* TokenUsage
TokenUsage(promptTokens, completionTokens, totalTokens) ==
    [promptTokens |-> promptTokens, completionTokens |-> completionTokens,
     totalTokens |-> totalTokens]

NoUsage == TokenUsage(0, 0, 0)

\* what the language-model boundary reports: a full usage, or only a total
RawUsages == {TokenUsage(2, 1, 3), TokenUsage(0, 0, 5)}

\* the usage a call returns: when only the total is known it is split,
\* Math.floor(totalTokens * share) to the prompt and the rest to the completion
EstimatedUsage(raw, sharePercent) ==
    IF raw.promptTokens = 0 /\ raw.completionTokens = 0 /\ raw.totalTokens > 0
    THEN TokenUsage((raw.totalTokens * sharePercent) \div 100,
                    raw.totalTokens - ((raw.totalTokens * sharePercent) \div 100),
                    raw.totalTokens)
    ELSE raw

\* UsageTracker.add
add(tracker, usage) ==
    TokenUsage(tracker.promptTokens + usage.promptTokens,
               tracker.completionTokens + usage.completionTokens,
               tracker.totalTokens + usage.totalTokens)

\* UsageTracker.reset, and the tracker after construction
reset(tracker) == TokenUsage(0, 0, 0)

\* the prices of calculateCost in hundredths of a dollar per million tokens
InputCostPerMillion(model) == IF model = "gpt-4o-mini" THEN 15 ELSE 25
OutputCostPerMillion(model) == IF model = "gpt-4o-mini" THEN 60 ELSE 200

\* UsageTracker.getCost(model): calculateCost(this.getUsage(), model), the
\* costs in units of 10^-8 dollar
getCost(tracker, model) ==
    [totalCost |-> tracker.promptTokens * InputCostPerMillion(model)
                     + tracker.completionTokens * OutputCostPerMillion(model),
     totalTokens |-> tracker.totalTokens]

\* the metrics record of a run
JobMetrics(found, skipped, new, urlChanged, reopened, tokens, cost) ==
    [roles_found |-> found, roles_skipped |-> skipped, roles_new |-> new,
     roles_url_changed |-> urlChanged, roles_reopened |-> reopened,
     total_tokens_used |-> tokens, total_cost_usd |-> cost, duration_seconds |-> 1]

\* the metrics of the catch block of runExplorationJob
ZeroMetrics == JobMetrics(0, 0, 0, 0, 0, 0, 0)

\* the successful return computes the metrics without the suggestion tracker
SuccessMetrics_NoSuggestion(found, skipped, j) ==
    JobMetrics(found, skipped, j.rolesNew, j.rolesUrlChanged, j.rolesReopened,
               getCost(j.extractionTracker, "gpt-5-mini").totalTokens
                 + getCost(j.classificationTracker, "gpt-4o-mini").totalTokens,
               getCost(j.extractionTracker, "gpt-5-mini").totalCost
                 + getCost(j.classificationTracker, "gpt-4o-mini").totalCost)

\* the metrics of the successful return of runExplorationJob
SuccessMetrics(found, skipped, j) ==
    JobMetrics(found, skipped, j.rolesNew, j.rolesUrlChanged, j.rolesReopened,
               getCost(j.extractionTracker, "gpt-5-mini").totalTokens
                 + getCost(j.classificationTracker, "gpt-4o-mini").totalTokens
                 + getCost(j.suggestionTracker, "gpt-5-mini").totalTokens,
               getCost(j.extractionTracker, "gpt-5-mini").totalCost
                 + getCost(j.classificationTracker, "gpt-4o-mini").totalCost
                 + getCost(j.suggestionTracker, "gpt-5-mini").totalCost)

\* the metrics are recorded for every run, test runs included
RecordsMetrics_Always(scrapeUrlId) == TRUE

\* if (input.scrapeUrlId !== 'manual-test')
RecordsMetrics(scrapeUrlId) == scrapeUrlId # "manual-test"

\* the role of the placeholder extractRoleFromHtml returns after two failures
ExtractionFailed == "Extraction Failed"

\* extractRoleFromHtml: throws stands for an exception before the first
\* attempt, firstFails and retryFails for the two calls of the boundary; calls
\* counts the calls of the boundary
extractRoleFromHtml(throws, firstFails, retryFails, raw) ==
    IF throws THEN [threw |-> TRUE, role |-> Null, usage |-> NoUsage, calls |-> 0]
    ELSE IF ~firstFails
    THEN [threw |-> FALSE, role |-> "s1", usage |-> EstimatedUsage(raw, 80), calls |-> 1]
    ELSE IF ~retryFails
    THEN [threw |-> FALSE, role |-> "s1", usage |-> EstimatedUsage(raw, 80), calls |-> 2]
    ELSE [threw |-> FALSE, role |-> ExtractionFailed, usage |-> NoUsage, calls |-> 2]

\* the catch block of the DETAIL handler throws the error on
DetailCatch_Rethrows(task) ==
    [task EXCEPT !.pc = "done", !.failed = TRUE, !.rethrown = TRUE]

\* the catch block of the DETAIL handler: the error is logged
DetailCatch(task) ==
    [task EXCEPT !.pc = "done", !.failed = TRUE]

\* a request of the detail phase, or the input of a runDetailPhase call
JobTaskOf(link) ==
    QueuedTaskOf(link) @@
    [calls |-> 0, role |-> Null, failed |-> FALSE, rethrown |-> FALSE,
     result |-> [returned |-> FALSE, success |-> FALSE, threw |-> FALSE,
                 error |-> Null, totalTokensUsed |-> 0]]

\* the argument of the saveDiscovery call of a handler
JobData(task, suggestion) ==
    DiscoveryData(RunFirm, RunScrapeUrl, task.role, suggestion, task.url,
                  task.action, task.existingRoleId)

\* what the suggestion boundary returns in these runs: a new programme or a
\* match
JobObjects ==
    {SuggestionObject(TRUE, N_GP, NullStr, "graduate", Null, NullStr),
     SuggestionObject(FALSE, NullStr, NullStr, Null, "p1", NullStr)}

\* the job links the classifier returns for the listing page
JobPages ==
    { <<>>, <<[url |-> U_A, title |-> T_C]>>,
      <<[url |-> U_A, title |-> T_C], [url |-> U_B, title |-> T_A2]>> }

\* the state of a run of runExplorationJob: the counters, the three trackers,
\* calls: the usage of every boundary call that has returned, in order
JobStart(scrapeUrlId) ==
    [phase |-> "run", scrapeUrlId |-> scrapeUrlId,
     rolesNew |-> 0, rolesUrlChanged |-> 0, rolesReopened |-> 0,
     extractionTracker |-> reset(NoUsage), classificationTracker |-> reset(NoUsage),
     suggestionTracker |-> reset(NoUsage), calls |-> <<>>,
     returned |-> FALSE, threw |-> FALSE, success |-> FALSE, error |-> Null,
     metrics |-> ZeroMetrics,
     metricsCall |-> [made |-> FALSE, data |-> [metrics |-> ZeroMetrics, error |-> Null],
                      updateError |-> FALSE]]

\* the most adds to a tracker used on its own
MaxAdds == 3

\* the entry points: a run of runExplorationJob for the listing or for a manual
\* test, runDetailPhase calls for two links, or a UsageTracker of its own
JobStarts ==
    { [pc |-> "start", job |-> JobStart(RunScrapeUrl), tasks |-> <<>>],
      [pc |-> "start", job |-> JobStart("manual-test"), tasks |-> <<>>],
      [pc |-> "detail", job |-> [phase |-> "phase"],
       tasks |-> << JobTaskOf([url |-> U_A, action |-> "NEW_ROLE", existingRoleId |-> Null]),
                    JobTaskOf([url |-> U_B, action |-> "NEW_ROLE", existingRoleId |-> Null]) >>],
      [pc |-> "tracker", job |-> [phase |-> "tracker", tracker |-> reset(NoUsage),
                                  calls |-> <<>>], tasks |-> <<>>] }

InitJob ==
    /\ program_roles = {}
    /\ role_discovery_drafts = <<>>
    /\ existingRoles = NoIndex
    /\ dismissedDrafts = NoIndex
    /\ classifiedLinks = <<>>
    /\ maxPages = 1
    /\ pagesProcessed = 0
    /\ rolesFound = 0
    /\ rolesSkipped = 0
    /\ seenUrls = {}
    /\ collectedLinks = <<>>
    /\ IdleStore
    /\ IdleProg
    /\ IdleFlow
    /\ IdleFn
    /\ \E s \in JobStarts :
          /\ pc = s.pc
          /\ job = s.job
          /\ tasks = s.tasks
    /\ scrape_urls = (RunScrapeUrl :> ScrapeUrlRow(<<>>, ZeroMetrics, "active", 0, Null))

\* the LIST handler of a run over one page: classifyJobLinks returns, the
\* links are classified and collected, checkAndStartDetailPhase enqueues them
JobListHandler ==
    /\ pc = "loaded"
    /\ job.phase = "run"
    /\ LoopContinues(pagesProcessed, maxPages)
    /\ \E jobLinks \in JobPages, raw \in RawUsages :
       \E usage \in {IF jobLinks = <<>> THEN NoUsage ELSE EstimatedUsage(raw, 70)} :
          /\ classifiedLinks' = ClassifyLinks(jobLinks)
          /\ \E acc \in {CollectLinks(ToCollect(classifiedLinks'),
                                      [seen |-> seenUrls, collected |-> collectedLinks])} :
                /\ seenUrls' = acc.seen
                /\ collectedLinks' = acc.collected
                /\ tasks' = [t \in 1..Len(acc.collected) |-> JobTaskOf(acc.collected[t])]
                /\ job' = [job EXCEPT
                      !.classificationTracker = add(@, usage),
                      !.calls = Append(@, usage),
                      !.rolesNew = Len(LinksWithAction(acc.collected, "NEW_ROLE")),
                      !.rolesUrlChanged = Len(LinksWithAction(acc.collected, "URL_CHANGED")),
                      !.rolesReopened = Len(LinksWithAction(acc.collected, "REOPENING"))]
    /\ pagesProcessed' = pagesProcessed + 1
    /\ rolesFound' = rolesFound + FoundOnPage(classifiedLinks')
    /\ rolesSkipped' = rolesSkipped + SkipCount(classifiedLinks')
    /\ pc' = "crawl"
    /\ UNCHANGED <<tableVars, indexVars, maxPages, storeVars, progVars, flowVars,
                   fnVars, metricVars>>

\* the DETAIL handler of request t up to the return of extractRoleFromHtml
JobExtract(t) ==
    /\ pc = "crawl"
    /\ job.phase = "run"
    /\ tasks[t].pc = "queued"
    /\ \E throws \in BOOLEAN, firstFails \in BOOLEAN, retryFails \in BOOLEAN,
          raw \in RawUsages :
       \E extraction \in {extractRoleFromHtml(throws, firstFails, retryFails, raw)} :
          /\ throws => ~firstFails
          /\ ~firstFails => ~retryFails
          /\ IF extraction.threw
             THEN /\ tasks' = [tasks EXCEPT ![t] = DetailCatch(@)]
                  /\ UNCHANGED job
             ELSE /\ tasks' = [tasks EXCEPT ![t].pc = "extracted",
                                            ![t].role = extraction.role,
                                            ![t].calls = extraction.calls]
                  /\ job' = [job EXCEPT !.extractionTracker = add(@, extraction.usage),
                                        !.calls = Append(@, extraction.usage)]
    /\ UNCHANGED <<tableVars, indexVars, pc, listVars, classifiedLinks, storeVars,
                   progVars, flowVars, fnVars, metricVars>>

\* the DETAIL handler of request t from the call of suggestProgramme to its
\* end: the deduplication check and saveDiscovery
JobSuggestSave(t) ==
    /\ pc = "crawl"
    /\ job.phase = "run"
    /\ tasks[t].pc = "extracted"
    /\ \E suggestionThrows \in BOOLEAN :
        IF suggestionThrows
        THEN /\ tasks' = [tasks EXCEPT ![t] = DetailCatch(@)]
             /\ UNCHANGED <<programme_discovery_drafts, role_discovery_drafts, job>>
        ELSE \E object \in JobObjects, raw \in RawUsages,
                progInsertError \in BOOLEAN, roleInsertError \in BOOLEAN :
             \E suggestion \in DedupedSuggestions(programme_discovery_drafts,
                                    suggestProgramme(object, Null), FALSE) :
             \E out \in {saveDiscovery(programme_discovery_drafts, role_discovery_drafts,
                              JobData(tasks[t], suggestion),
                              progInsertError, roleInsertError)} :
                /\ ~(progInsertError /\ roleInsertError)
                /\ programme_discovery_drafts' = out.programmes
                /\ role_discovery_drafts' = out.roles
                /\ job' = [job EXCEPT !.suggestionTracker = add(@, raw),
                                      !.calls = Append(@, raw)]
                /\ tasks' = [tasks EXCEPT ![t].pc = "done",
                                          ![t].suggestion = suggestion,
                                          ![t].saved = out.ok,
                                          ![t].failed = ~out.ok,
                                          ![t].programmeDraftId = out.programmeDraftId,
                                          ![t].roleDraftId = out.roleDraftId]
    /\ UNCHANGED <<program_roles, indexVars, pc, listVars, classifiedLinks, storeVars,
                   programs, progCall, flowVars, fnVars, metricVars>>

\* the table scrape_urls after the update of the row id; no row has the id of
\* a manual test
RecordMetrics(table, id, data, fetchError, updateError) ==
    IF id \in DOMAIN table
    THEN [table EXCEPT ![id] = updateScrapeUrlMetrics(@, data, 1, fetchError, updateError)]
    ELSE table

\* the end of a run with the result success: the metrics are recorded unless
\* the run is a manual test
JobEnd(success, metrics, error) ==
    \E fetchError \in BOOLEAN, updateError \in BOOLEAN :
       \E data \in {[metrics |-> metrics, error |-> error]} :
          /\ ~(fetchError /\ updateError)
          /\ ~RecordsMetrics(job.scrapeUrlId) => ~fetchError /\ ~updateError
          /\ scrape_urls' = IF RecordsMetrics(job.scrapeUrlId)
                            THEN RecordMetrics(scrape_urls, job.scrapeUrlId, data,
                                               fetchError, updateError)
                            ELSE scrape_urls
          /\ job' = [job EXCEPT
                        !.returned = TRUE,
                        !.success = success,
                        !.error = error,
                        !.metrics = metrics,
                        !.metricsCall = IF RecordsMetrics(job.scrapeUrlId)
                                        THEN [made |-> TRUE, data |-> data,
                                              updateError |-> updateError]
                                        ELSE @]
          /\ pc' = "returned"

\* crawler.run resolves once no request is left; the metrics are computed,
\* recorded and returned
JobReturn ==
    /\ pc = "crawl"
    /\ job.phase = "run"
    /\ \A t \in DOMAIN tasks : tasks[t].pc = "done" /\ ~tasks[t].rethrown
    /\ JobEnd(TRUE, SuccessMetrics(rolesFound, rolesSkipped, job), Null)
    /\ UNCHANGED <<tableVars, indexVars, listVars, classifiedLinks, storeVars,
                   progVars, tasks, flowVars, fnVars>>

\* an exception reaches the catch block of runExplorationJob: the crawler
\* throws, or a handler has thrown its error on
JobThrows ==
    /\ pc \in {"start", "loaded", "crawl"}
    /\ job.phase = "run"
    /\ \E crawlerThrows \in BOOLEAN :
          /\ crawlerThrows \/ \E t \in DOMAIN tasks : tasks[t].rethrown
          /\ JobEnd(FALSE, ZeroMetrics, IF crawlerThrows THEN "crawler" ELSE "detail")
    /\ UNCHANGED <<tableVars, indexVars, listVars, classifiedLinks, storeVars,
                   progVars, tasks, flowVars, fnVars>>

\* the result of runDetailPhase for one link: crawlerThrows is an exception
\* of crawler.run, handlerError the step of the handler that throws
DetailPhaseResult(saved, crawlerThrows, handlerError, tokens) ==
    IF crawlerThrows
    THEN [returned |-> TRUE, success |-> FALSE, threw |-> FALSE, error |-> "crawler",
          totalTokensUsed |-> 0]
    ELSE IF handlerError # "none" \/ ~saved
    THEN [returned |-> TRUE, success |-> FALSE, threw |-> FALSE,
          error |-> "Extraction completed but no result captured",
          totalTokensUsed |-> tokens]
    ELSE [returned |-> TRUE, success |-> TRUE, threw |-> FALSE, error |-> Null,
          totalTokensUsed |-> tokens]

\* a call of runDetailPhase for the link of task t, from start to return
RunDetailPhase(t) ==
    /\ pc = "detail"
    /\ job.phase = "phase"
    /\ tasks[t].pc = "queued"
    /\ \E crawlerThrows \in BOOLEAN, throws \in BOOLEAN, firstFails \in BOOLEAN,
          retryFails \in BOOLEAN, suggestionThrows \in BOOLEAN :
       \E extraction \in {extractRoleFromHtml(throws, firstFails, retryFails,
                                              TokenUsage(2, 1, 3))} :
          /\ throws => ~firstFails
          /\ ~firstFails => ~retryFails
          /\ crawlerThrows => ~throws /\ ~firstFails /\ ~suggestionThrows
          /\ throws => ~suggestionThrows
          /\ IF crawlerThrows \/ extraction.threw \/ suggestionThrows
             THEN /\ tasks' = [tasks EXCEPT
                        ![t].pc = "done",
                        ![t].failed = TRUE,
                        ![t].calls = IF crawlerThrows THEN 0 ELSE extraction.calls,
                        ![t].role = IF crawlerThrows THEN Null ELSE extraction.role,
                        ![t].result =
                            DetailPhaseResult(FALSE, crawlerThrows,
                                IF extraction.threw THEN "extraction" ELSE "suggestion",
                                IF crawlerThrows \/ extraction.threw THEN 0
                                ELSE extraction.usage.totalTokens)]
                  /\ UNCHANGED <<programme_discovery_drafts, role_discovery_drafts>>
             ELSE \E object \in JobObjects,
                     progInsertError \in BOOLEAN, roleInsertError \in BOOLEAN :
                  \E suggestion \in DedupedSuggestions(programme_discovery_drafts,
                                         suggestProgramme(object, Null), FALSE) :
                  \E out \in {saveDiscovery(programme_discovery_drafts,
                                   role_discovery_drafts,
                                   JobData([tasks[t] EXCEPT !.role = extraction.role],
                                           suggestion),
                                   progInsertError, roleInsertError)} :
                     /\ ~(progInsertError /\ roleInsertError)
                     /\ programme_discovery_drafts' = out.programmes
                     /\ role_discovery_drafts' = out.roles
                     /\ tasks' = [tasks EXCEPT
                           ![t].pc = "done",
                           ![t].calls = extraction.calls,
                           ![t].role = extraction.role,
                           ![t].suggestion = suggestion,
                           ![t].saved = out.ok,
                           ![t].failed = ~out.ok,
                           ![t].programmeDraftId = out.programmeDraftId,
                           ![t].roleDraftId = out.roleDraftId,
                           ![t].result =
                               DetailPhaseResult(out.ok, FALSE, "none",
                                   extraction.usage.totalTokens + 3)]
    /\ UNCHANGED <<program_roles, indexVars, pc, listVars, classifiedLinks, storeVars,
                   programs, progCall, flowVars, job, fnVars, metricVars>>

\* add on a tracker of its own
TrackerAdd ==
    /\ pc = "tracker"
    /\ Len(job.calls) < MaxAdds
    /\ \E raw \in RawUsages, sharePercent \in {70, 80} :
          job' = [job EXCEPT !.tracker = add(@, EstimatedUsage(raw, sharePercent)),
                             !.calls = Append(@, EstimatedUsage(raw, sharePercent))]
    /\ UNCHANGED <<tableVars, indexVars, pc, listVars, classifiedLinks, storeVars,
                   progVars, tasks, flowVars, fnVars, metricVars>>

\* reset on a tracker of its own
TrackerReset ==
    /\ pc = "tracker"
    /\ job.calls # <<>>
    /\ job' = [job EXCEPT !.tracker = reset(@), !.calls = <<>>]
    /\ UNCHANGED <<tableVars, indexVars, pc, listVars, classifiedLinks, storeVars,
                   progVars, tasks, flowVars, fnVars, metricVars>>

NextJob ==
    \/ LoadIndexes
    \/ JobListHandler
    \/ \E t \in DOMAIN tasks : JobExtract(t)
    \/ \E t \in DOMAIN tasks : JobSuggestSave(t)
    \/ JobReturn
    \/ JobThrows
    \/ \E t \in DOMAIN tasks : RunDetailPhase(t)
    \/ TrackerAdd
    \/ TrackerReset

SpecJob == InitJob /\ [][NextJob]_vars

DetailFailureStep(t) ==
    /\ ~tasks[t].failed
    /\ t \in DOMAIN tasks'
    /\ tasks'[t].failed

\* C28: a failure (extraction, suggestion or save) on one detail link aborts
\* neither the run nor a sibling: the step leaves the run in the crawl and the
\* other requests as they are, a run that fails has failed by an exception of
\* the crawler and not by a link, a run returns success = true only after
\* every dispatched link was processed, and runDetailPhase returns
\* success = false for a failed link and does not throw.
C28_DetailFailureIsolated ==
    /\ [](/\ (job.phase = "run" /\ job.returned /\ ~job.success)
               => job.error = "crawler"
          /\ (job.phase = "run" /\ job.returned /\ job.success)
               => \A t \in DOMAIN tasks : tasks[t].pc = "done"
          /\ job.phase = "phase"
               => \A t \in DOMAIN tasks :
                     tasks[t].pc = "done"
                        => /\ tasks[t].result.returned
                           /\ ~tasks[t].result.threw
                           /\ tasks[t].failed => ~tasks[t].result.success)
    /\ [][\A t \in DOMAIN tasks :
             DetailFailureStep(t)
                => /\ pc' = pc
                   /\ \A u \in DOMAIN tasks \ {t} : tasks'[u] = tasks[u]]_vars

C28_Witness ==
    /\ job.phase = "run"
    /\ job.returned
    /\ job.success
    /\ Len(tasks) = 2
    /\ tasks[1].failed
    /\ ~tasks[1].saved
    /\ tasks[2].saved

\* the role drafts stored for the link of a task
DraftsOfLink(task) ==
    {i \in 1..Len(role_discovery_drafts) : role_discovery_drafts[i].url = task.url}

\* C29: extractRoleFromHtml calls the extraction boundary at most twice; when
\* both attempts fail the link is skipped: no programme draft and no role
\* draft is stored for it.
C29_FailedExtractionSkipsLink ==
    \A t \in DOMAIN tasks :
        /\ tasks[t].calls <= 2
        /\ (tasks[t].pc = "done" /\ tasks[t].role = ExtractionFailed)
              => /\ ~tasks[t].saved
                 /\ tasks[t].programmeDraftId = Null
                 /\ DraftsOfLink(tasks[t]) = {}

\* the component-wise sum of a sequence of usages
RECURSIVE SumUsages(_)
SumUsages(usages) ==
    IF usages = <<>> THEN TokenUsage(0, 0, 0)
    ELSE LET rest == SumUsages(Tail(usages))
         IN TokenUsage(Head(usages).promptTokens + rest.promptTokens,
                       Head(usages).completionTokens + rest.completionTokens,
                       Head(usages).totalTokens + rest.totalTokens)

\* a tracker holds the sum of the usages added since its construction or
\* last reset; the three trackers of a run hold together the sum of the
\* usages of the calls that returned
TrackersHoldSums ==
    /\ job.phase = "tracker" => job.tracker = SumUsages(job.calls)
    /\ job.phase = "run"
         => add(add(job.extractionTracker, job.classificationTracker),
                job.suggestionTracker) = SumUsages(job.calls)

\* add does not decrease a total
TrackerGrows ==
    (job.phase = "tracker" /\ job'.phase = "tracker" /\ Len(job'.calls) > Len(job.calls))
       => /\ job'.tracker.promptTokens >= job.tracker.promptTokens
          /\ job'.tracker.completionTokens >= job.tracker.completionTokens
          /\ job'.tracker.totalTokens >= job.tracker.totalTokens

\* C30 as stated: each tracker holds the component-wise sum of the usages
\* added, and the total_tokens_used a run reports is the sum of totalTokens
\* over every classification, extraction and suggestion call that returned.
C30_TokensSummed ==
    /\ TrackersHoldSums
    /\ (job.phase = "run" /\ job.returned)
          => job.metrics.total_tokens_used = SumUsages(job.calls).totalTokens

\* C30 for the runs that return success = true: each tracker holds the
\* component-wise sum of the usages added since construction or the last
\* reset and never decreases under add, and the total_tokens_used of a
\* successful run is the sum of totalTokens over every classification,
\* extraction and suggestion call that returned, whatever the order of the
\* detail handlers.
C30_TokensSummedOnSuccess ==
    /\ [](/\ TrackersHoldSums
          /\ (job.phase = "run" /\ job.returned /\ job.success)
                => job.metrics.total_tokens_used = SumUsages(job.calls).totalTokens)
    /\ [][TrackerGrows]_vars

C30_Witness ==
    /\ job.phase = "run"
    /\ job.returned
    /\ job.success
    /\ job.classificationTracker.totalTokens > 0
    /\ job.suggestionTracker.totalTokens > 0
    /\ Len(tasks) = 2
    /\ tasks[2].pc = "done"
    /\ tasks[2].calls = 2
    /\ job.metrics.total_tokens_used > 10

\* ------------------------------------------- the usage a boundary call records
\* the largest total of a response
MaxTotalTokens == 7

\* a count the response does not carry (undefined under every property name)
AbsentTokens == -1

\* the usage objects of a response: each count is absent, 0 or positive
ResponseUsages ==
    [promptTokens : {AbsentTokens, 0, 2}, completionTokens : {AbsentTokens, 0, 1},
     totalTokens : {AbsentTokens} \cup 0..MaxTotalTokens]

\* usageAny.totalTokens ?? usageAny.total_tokens ?? 0
OrZero(count) == IF count = AbsentTokens THEN 0 ELSE count

\* the three counts read from the response
ReadUsage(response) ==
    TokenUsage(OrZero(response.promptTokens), OrZero(response.completionTokens),
               OrZero(response.totalTokens))

\* the usage extractRoleFromHtml returns: 80/20 estimate
ExtractionUsage(response) == EstimatedUsage(ReadUsage(response), 80)

\* the usage classifyJobLinks returns: 70/30 estimate
ClassificationUsage(response) == EstimatedUsage(ReadUsage(response), 70)

\* the usage suggestProgramme returns: the counts as read
SuggestionUsage(response) == ReadUsage(response)

InitUsage ==
    /\ pc = "usage"
    /\ fnIn \in {<<response>> : response \in ResponseUsages}
    /\ fnOut = <<>>
    /\ program_roles = {}
    /\ role_discovery_drafts = <<>>
    /\ existingRoles = NoIndex
    /\ dismissedDrafts = NoIndex
    /\ classifiedLinks = <<>>
    /\ IdleList
    /\ IdleStore
    /\ IdleProg
    /\ tasks = <<>>
    /\ IdleFlow
    /\ job = NoJob
    /\ IdleMetrics

\* the three boundaries each receive the response and return their usage
UsageCall ==
    /\ pc = "usage"
    /\ fnOut' = <<[boundary |-> "extraction", usage |-> ExtractionUsage(fnIn[1])],
                  [boundary |-> "classification", usage |-> ClassificationUsage(fnIn[1])],
                  [boundary |-> "suggestion", usage |-> SuggestionUsage(fnIn[1])]>>
    /\ pc' = "usage_done"
    /\ UNCHANGED <<tableVars, indexVars, listVars, classifiedLinks, storeVars,
                   progVars, tasks, flowVars, job, fnIn, metricVars>>

NextUsage == UsageCall

SpecUsage == InitUsage /\ [][NextUsage]_vars

\* the response reports a total and no breakdown
TotalOnly(response) ==
    /\ OrZero(response.totalTokens) > 0
    /\ OrZero(response.promptTokens) = 0
    /\ OrZero(response.completionTokens) = 0

\* the share of the prompt the boundary documents, in percent; the suggestion
\* boundary documents none
PromptShare(boundary) == IF boundary = "classification" THEN 70 ELSE 80

\* C31: for each of the three boundaries, when the response reports a total
\* above 0 and no breakdown, the recorded usage has promptTokens =
\* floor(ratio * totalTokens) and completionTokens = totalTokens -
\* promptTokens, so the two add up to totalTokens.
C31_TotalOnlyEstimated ==
    (pc = "usage_done" /\ TotalOnly(fnIn[1])) =>
        \A i \in 1..Len(fnOut) :
            /\ fnOut[i].usage.totalTokens = fnIn[1].totalTokens
            /\ fnOut[i].usage.promptTokens + fnOut[i].usage.completionTokens
                  = fnOut[i].usage.totalTokens
            /\ fnOut[i].boundary # "suggestion"
                  => fnOut[i].usage.promptTokens
                        = (fnIn[1].totalTokens * PromptShare(fnOut[i].boundary)) \div 100

\* ------------------------------------------------- the maxRoles limit, compared
\* the most links a list phase collected
MaxCollected == 3

\* the collected links of a list phase: distinct URLs, in collection order
CollectedInputs ==
    UNION {{links \in [1..n -> {U_A, U_B, U_BAD}] :
               \A i, j \in 1..n : links[i] = links[j] => i = j} : n \in 0..MaxCollected}

InitMaxRoles ==
    /\ pc = "maxRoles"
    /\ fnIn \in {<<links, limit>> : links \in CollectedInputs,
                                    limit \in {NoMaxRoles} \cup 0..(MaxCollected + 1)}
    /\ fnOut = <<>>
    /\ program_roles = {}
    /\ role_discovery_drafts = <<>>
    /\ existingRoles = NoIndex
    /\ dismissedDrafts = NoIndex
    /\ classifiedLinks = <<>>
    /\ IdleList
    /\ IdleStore
    /\ IdleProg
    /\ tasks = <<>>
    /\ IdleFlow
    /\ job = NoJob
    /\ IdleMetrics

\* the links checkAndStartDetailPhase enqueues and the links discoveryFlowTask
\* triggers for the same collected links; both dispatch nothing when nothing
\* was collected
MaxRolesCall ==
    /\ pc = "maxRoles"
    /\ fnOut' = <<ExploreLinksToExtract(fnIn[1], fnIn[2]),
                  LinksToExtract(fnIn[1], fnIn[2])>>
    /\ pc' = "maxRoles_done"
    /\ UNCHANGED <<tableVars, indexVars, listVars, classifiedLinks, storeVars,
                   progVars, tasks, flowVars, job, fnIn, metricVars>>

NextMaxRoles == MaxRolesCall

SpecMaxRoles == InitMaxRoles /\ [][NextMaxRoles]_vars

\* the first min(limit, n) links
FirstLinks(links, limit) ==
    SubSeq(links, 1, IF limit < Len(links) THEN limit ELSE Len(links))

\* C32: when maxRoles is configured (0 included), neither orchestrator
\* dispatches more than maxRoles detail extractions, and both dispatch the
\* first min(maxRoles, n) collected links in collection order.
C32_SameLinksWithinLimit ==
    (pc = "maxRoles_done" /\ fnIn[2] # NoMaxRoles) =>
        /\ Len(fnOut[1]) <= fnIn[2]
        /\ Len(fnOut[2]) <= fnIn[2]
        /\ fnOut[1] = FirstLinks(fnIn[1], fnIn[2])
        /\ fnOut[2] = FirstLinks(fnIn[1], fnIn[2])

\* the role drafts a step approves
ApprovedInStep ==
    {i \in 1..Len(role_discovery_drafts) :
        /\ role_discovery_drafts[i].status = "pending"
        /\ role_discovery_drafts'[i].status = "approved"}

\* C33: after approveProgrammeWithRoles or approveStandaloneRoles has approved
\* a URL_CHANGED or REOPENING role draft and reports success, a role with the
\* draft's existing_role_id exists and carries the draft's URL, also when that
\* role came from the legacy import (source trackr).
C33_UpdatedRoleExists ==
    [][(/\ progCall'.op \in {"approveProgrammeWithRoles", "approveStandaloneRoles"}
        /\ progCall'.success)
       => \A i \in ApprovedInStep :
             role_discovery_drafts[i].update_type \in {"URL_CHANGED", "REOPENING"}
                => \E r \in program_roles' :
                      /\ r.id = role_discovery_drafts[i].existing_role_id
                      /\ r.url = role_discovery_drafts[i].url]_vars

\* ------------------------------------------- approveProgrammeDraft, call by call
\* the programme drafts an admin has before them
ApproveDrafts ==
    <<ProgrammeDraft("f1", "Grad", "grad", "summer_internship", "u1", "pending"),
      ProgrammeDraft("f1", "Grad", "grad", "off_cycle_internship", Null, "pending"),
      ProgrammeDraft("f2", "Grad", "grad", "summer_internship", "u1", "pending")>>

InitApprove ==
    /\ program_roles = {}
    /\ role_discovery_drafts = <<>>
    /\ existingRoles = NoIndex
    /\ dismissedDrafts = NoIndex
    /\ pc = "approve"
    /\ classifiedLinks = <<>>
    /\ IdleList
    /\ IdleStore
    /\ programme_discovery_drafts = ApproveDrafts
    /\ programs \in ProgInitProgrammes
    /\ progCall = NoProgCall
    /\ tasks = <<>>
    /\ IdleFlow
    /\ job = NoJob
    /\ IdleFn
    /\ IdleMetrics

\* one call of approveProgrammeDraft, from the fetch of the draft to the return;
\* no other call overlaps it
ApproveProgrammeCall ==
    /\ pc = "approve"
    /\ \E draftId \in 1..Len(programme_discovery_drafts), selectError \in BOOLEAN,
          createError \in BOOLEAN, updateError \in BOOLEAN :
       \E out \in {approveProgrammeDraft(programme_discovery_drafts, programs,
                                         draftId, selectError, createError, updateError)} :
          /\ Len(out.programs) <= MaxProgrammes
          /\ programme_discovery_drafts' = out.drafts
          /\ programs' = out.programs
          /\ progCall' = [op |-> "approve", draft |-> programme_discovery_drafts[draftId],
                          selectError |-> selectError,
                          success |-> out.success, programmeId |-> out.programmeId]
    /\ UNCHANGED <<tableVars, indexVars, pc, listVars, classifiedLinks, storeVars, tasks,
                   flowVars, job, fnVars, metricVars>>

NextApprove == ApproveProgrammeCall

SpecApprove == InitApprove /\ [][NextApprove]_vars

\* the programmes of a firm under a normalized name
ProgrammesOf(firm, normalized) ==
    {i \in 1..Len(programs) :
        programs[i].firm_id = firm /\ programs[i].normalized_name = normalized}

\* C34: approveProgrammeDraft called sequentially is idempotent: approving a
\* draft twice, or two drafts of one firm with one normalized name, leaves
\* exactly one programme for (firm, normalized name), and every successful
\* call returns the id of that programme.
C34_ApproveProgrammeIdempotent ==
    /\ \A i \in 1..Len(programs) :
          ProgrammesOf(programs[i].firm_id, programs[i].normalized_name) = {i}
    /\ (progCall.op = "approve" /\ progCall.success)
          => ProgrammesOf(progCall.draft.firm_id, progCall.draft.normalized_name)
                = {progCall.programmeId}

\* C35: saveDiscovery is all-or-nothing: when a call returns null because the
\* role draft could not be saved, no programme draft that the same call
\* created remains in the store.
C35_SaveDiscoveryAllOrNothing ==
    (saveCall.op = "saveDiscovery" /\ ~saveCall.ok)
        => programme_discovery_drafts = saveCall.programmesBefore

\* ------------------------------- runs of the detail phase, one after another
\* what the suggestion boundary returns for the pages of the listing: a new
\* programme as graduate, the same name as summer internship, or a match
SaveObjects ==
    {SuggestionObject(TRUE, N_G, NullStr, "graduate", Null, NullStr),
     SuggestionObject(TRUE, N_G, NullStr, "summer_internship", Null, NullStr),
     SuggestionObject(FALSE, NullStr, NullStr, Null, "p1", NullStr)}

\* the postings of the listing, none of them a role of the firm yet
SaveUrls == {U_A, U_B}

InitSave ==
    /\ program_roles = {}
    /\ role_discovery_drafts = <<>>
    /\ existingRoles = NoIndex
    /\ dismissedDrafts = NoIndex
    /\ pc = "save"
    /\ classifiedLinks = <<>>
    /\ IdleList
    /\ IdleStore
    /\ IdleProg
    /\ tasks = <<>>
    /\ maxRoles = NoMaxRoles
    /\ saveCall = NoSaveCall
    /\ job = NoJob
    /\ IdleFn
    /\ IdleMetrics

\* runDetailPhase for one posting from the suggestion to the return of
\* saveDiscovery, with no other store operation in between; later runs of the
\* listing come to the same posting again
DetailSaveCall ==
    /\ pc = "save"
    /\ \E url \in SaveUrls, object \in SaveObjects, queryFails \in BOOLEAN,
          progInsertError \in BOOLEAN, roleInsertError \in BOOLEAN :
       \E suggestion \in DedupedSuggestions(programme_discovery_drafts,
                              suggestProgramme(object, Null), queryFails) :
       \E data \in {DiscoveryData(RunFirm, RunScrapeUrl, "s1", suggestion, url,
                                  "NEW_ROLE", Null)} :
       \E out \in {saveDiscovery(programme_discovery_drafts, role_discovery_drafts,
                                 data, progInsertError, roleInsertError)} :
          /\ programme_discovery_drafts' = out.programmes
          /\ role_discovery_drafts' = out.roles
          /\ saveCall' = [op |-> "saveDiscovery", data |-> data, ok |-> out.ok,
                          programmeDraftId |-> out.programmeDraftId,
                          roleDraftId |-> out.roleDraftId,
                          programmesBefore |-> programme_discovery_drafts,
                          rolesBefore |-> role_discovery_drafts]
    /\ UNCHANGED <<program_roles, indexVars, pc, listVars, classifiedLinks, storeVars,
                   programs, progCall, tasks, maxRoles, job, fnVars, metricVars>>

NextSave == DetailSaveCall

SpecSave == InitSave /\ [][NextSave]_vars

\* some role draft is linked to programme draft i
HasLinkedRoleDraft(i) ==
    \E j \in 1..Len(role_discovery_drafts) :
        role_discovery_drafts[j].programme_discovery_draft_id = ToString(i)

\* C36: whenever saveDiscovery returns both a programmeDraftId and a
\* roleDraftId, the stored role draft of that id carries the returned
\* programmeDraftId, also when the role draft was already pending and is
\* returned unchanged; so every programme draft that saveDiscovery inserted
\* has a role draft linked to it.
C36_ReturnedIdsLinked ==
    (saveCall.op = "saveDiscovery" /\ saveCall.ok /\ saveCall.programmeDraftId # Null)
        => /\ role_discovery_drafts[saveCall.roleDraftId].programme_discovery_draft_id
                 = saveCall.programmeDraftId
           /\ \A i \in 1..Len(programme_discovery_drafts) :
                 i > Len(saveCall.programmesBefore) => HasLinkedRoleDraft(i)

\* C37: the pending programme draft that saveDiscovery links a role draft to
\* has the programme type of the new-programme suggestion the role draft
\* came from; two new-programme suggestions of one firm with the same
\* normalized name and different programme types are not merged into one
\* programme draft.
C37_LinkedProgrammeTypeMatches ==
    (/\ saveCall.op = "saveDiscovery" /\ saveCall.ok
     /\ saveCall.programmeDraftId # Null
     /\ saveCall.roleDraftId > Len(saveCall.rolesBefore))
        => \E i \in 1..Len(programme_discovery_drafts) :
              /\ role_discovery_drafts[saveCall.roleDraftId]
                    .programme_discovery_draft_id = ToString(i)
              /\ programme_discovery_drafts[i].program_type
                    = ProgSaveDataOf(saveCall.data).programType

\* C38: the metrics a successful runExplorationJob returns are conserved:
\* roles_found = roles_skipped + roles_new + roles_url_changed +
\* roles_reopened, for every listing, also when a posting shows on several
\* pages and when maxRoles limits the run.
C38_MetricsConserved ==
    (pc = "returned" /\ job.success) =>
        job.metrics.roles_found
            = job.metrics.roles_skipped + job.metrics.roles_new
              + job.metrics.roles_url_changed + job.metrics.roles_reopened

\* a step leaves the status of every decided draft of the table as it was
DecidedStay(before, after) ==
    \A i \in 1..Len(before) :
        before[i].status # "pending"
            => i <= Len(after) /\ after[i].status = before[i].status

\* C39: draft status is monotone: a programme or role draft moves only from
\* pending to approved or from pending to dismissed; no call of saveDiscovery,
\* of an approval or of dismissDiscoveries turns an approved draft into a
\* dismissed one, a dismissed one into an approved one, or either back to
\* pending.
C39_StatusMonotone ==
    [][/\ DecidedStay(programme_discovery_drafts, programme_discovery_drafts')
       /\ DecidedStay(role_discovery_drafts, role_discovery_drafts')]_vars

\* the action and the role classifyRoleAction gives for a link when
\* loadExistingRoles received the rows in the order of roles
ClassifiedUnder(link, roles) ==
    LET index == loadExistingRoles(roles, FALSE)
        result == classifyRoleAction(link.url, link.title, index.byUrl, index.byName,
                                     dismissedDrafts.byUrl, dismissedDrafts.byName)
    IN <<result.action, result.existingRoleId>>

\* C40: the action classifyRoleAction returns for a candidate does not depend
\* on the order in which loadExistingRoles received the existing roles: two
\* index builds over the same roles in different orders give the same action
\* and existingRoleId for every candidate, also when several roles share a
\* canonical name or a normalized URL.
C40_OrderIndependent ==
    (pc = "loaded" /\ classifiedLinks # <<>>)
        => \A roles \in Orderings(ExistingRolesQuery(program_roles, RunFirm)) :
              ClassifiedUnder(classifiedLinks[1], roles)
                 = <<classifiedLinks[1].action, classifiedLinks[1].existingRoleId>>

====
